---- MODULE Spec2Model ----
(***************************************************************************)
(* State-machine model of the Pinia stores of the teacher dashboard:       *)
(*   auth.store   (src/unnamed/part_002)                                   *)
(*   class.store  (src/unnamed/part_001, lines 80-371)                     *)
(*   course.store (src/unnamed/part_003, lines 1-382)                      *)
(*                                                                         *)
(* JavaScript runs one task at a time.  Every asynchronous store operation *)
(* has the shape                                                           *)
(*     <synchronous prologue>; await setTimeout(500); <synchronous rest>   *)
(* so it is modelled by two atomic actions: Call<Op> (the prologue, which  *)
(* appends the call to `pending`) and Resume<Op> (everything after the     *)
(* await, including the finally block).  All timers have the same delay    *)
(* (500 ms), so they fire in the order in which they were set: `pending`   *)
(* is a FIFO queue and only its head can resume.                           *)
(*                                                                         *)
(* Values.  `null` / `undefined` option values are sequences of length     *)
(* at most one: None is <<>> and Some(x) is <<x>>.  Objects are modelled   *)
(* by value.  This is exact for the class store although the code aliases  *)
(* objects (classes.value = [...mockClasses], currentClass.value =         *)
(* foundClass): every in-place mutation of a mock class (push / reassigned *)
(* courses) is followed, in the same task, by the reassignment of          *)
(* classes.value, and of currentClass.value when it has the mutated id, so *)
(* no alias is ever observed out of date.                                  *)
(***************************************************************************)
EXTENDS Integers, Sequences, FiniteSets

VARIABLES
    auth_user,              \* auth.store user: None or Some(User)
    auth_isAuthenticated,   \* auth.store isAuthenticated
    auth_isLoading,         \* auth.store isLoading
    auth_error,             \* auth.store error: None or Some(message)
    classes,                \* class.store classes: sequence of classes
    currentClass,           \* class.store currentClass: None or Some(class)
    class_isLoading,        \* class.store isLoading
    class_error,            \* class.store error
    mockClasses,            \* class.store mockClasses (mutated in place)
    courses,                \* course.store courses
    filteredCourses,        \* course.store filteredCourses
    currentCourse,          \* course.store currentCourse
    course_isLoading,       \* course.store isLoading
    course_error,           \* course.store error
    course_mockCourses,     \* course.store mockCourses (mutated in place)
    localStorage,           \* window.localStorage: None or Some(value) of the key 'user'
    pending,                \* calls suspended on their 500 ms timer, oldest first
    ret,                    \* the call that returned in the last step, with its value
    selectedCourse,         \* CoursesView selectedCourse: None or Some(course)
    errors,                 \* CourseForm errors: the message of each field, "" for none
    draggingCourse,         \* the dashboard component's draggingCourse: None or Some(course)
    dragError,              \* DragDropContainer dragError: None or Some(message)
    successMessage,         \* DragDropContainer successMessage: None or Some(message)
    assignmentHistory,      \* DragDropContainer assignmentHistory, oldest first
    drag_isLoading,         \* DragDropContainer isLoading
    errorMessage            \* DashboardView errorMessage: "" for none

authVars   == <<auth_user, auth_isAuthenticated, auth_isLoading, auth_error>>
classVars  == <<classes, currentClass, class_isLoading, class_error, mockClasses>>
courseVars == <<courses, filteredCourses, currentCourse, course_isLoading,
                course_error, course_mockCourses>>
dragVars   == <<draggingCourse, dragError, successMessage, assignmentHistory,
                drag_isLoading, errorMessage>>
viewVars   == <<selectedCourse, errors, dragVars>>
vars == <<authVars, classVars, courseVars, localStorage, pending, ret, viewVars>>

-----------------------------------------------------------------------------
(* Bounds of the model *)

\* calls that may be suspended on their timer at the same time
MaxPending == 2

\* createCourse is not called once the course collection could grow beyond this
MaxCourses == 7

\* createCourse is not called once an id beyond this could be handed out
MaxCourseId == 7

-----------------------------------------------------------------------------
(* Option values and sequence helpers (JavaScript array methods) *)

None == <<>>
Some(x) == <<x>>

\* Array.prototype.findIndex(x => x.id === id), 1-based; 0 stands for -1
FindIndex(s, id) ==
    IF \E i \in 1..Len(s) : s[i].id = id
    THEN CHOOSE i \in 1..Len(s) : s[i].id = id /\ \A j \in 1..(i-1) : s[j].id # id
    ELSE 0

\* Array.prototype.find(x => x.id === id): None for undefined
Find(s, id) == IF FindIndex(s, id) = 0 THEN None ELSE Some(s[FindIndex(s, id)])

\* Array.prototype.splice(index, 1), 1-based
Splice1(s, i) == SubSeq(s, 1, i-1) \o SubSeq(s, i+1, Len(s))

Range(s) == {s[i] : i \in 1..Len(s)}

\* the ids of a sequence of objects, in order
Ids(s) == [i \in 1..Len(s) |-> s[i].id]

-----------------------------------------------------------------------------
(* Fixture data *)

\* `undefined`, the value of authStore.user?.id when no user is logged in
Undefined == -1

\* -Infinity, the value of Math.max() of no arguments; -Infinity + 1 = -Infinity
NegInfinity == -1000000

\* auth.store mockUsers
mockUsers == <<
    [id |-> 1, email |-> "teacher@example.com",  name |-> "Jane Teacher", role |-> "teacher"],
    [id |-> 2, email |-> "student@example.com",  name |-> "John Student", role |-> "student"],
    [id |-> 3, email |-> "teacher2@example.com", name |-> "Mike Johnson", role |-> "teacher"] >>

\* class.store mockStudents, by id (immutable reference data)
mockStudents == <<4, 5, 6, 7, 8, 9>>

MkCourse(id, title, description, date, marks, difficulty, teacher) ==
    [id |-> id, title |-> title, description |-> description, date |-> date,
     total_marks |-> marks, difficulty_rating |-> difficulty, teacher_id |-> teacher]

\* class.store mockCourses: never mutated
class_mockCourses == <<
    MkCourse(1, "Introduction to Mathematics", "Basic mathematical concepts and operations",
             "2025-04-15", 100, "easy", 1),
    MkCourse(2, "Advanced Physics", "Complex physical principles and theories",
             "2025-05-20", 150, "hard", 1),
    MkCourse(3, "English Literature", "Classic and contemporary literature analysis",
             "2025-04-10", 100, "medium", 3),
    MkCourse(4, "Computer Science Fundamentals", "Introduction to programming concepts",
             "2025-06-05", 120, "medium", 3) >>

\* course.store mockCourses at construction
course_mockCourses0 ==
    class_mockCourses \o <<
    MkCourse(5, "Biology Basics", "Introduction to biological systems and processes",
             "2025-04-22", 100, "easy", 1),
    MkCourse(6, "Chemistry 101", "Fundamental chemistry principles and experiments",
             "2025-05-10", 120, "medium", 1) >>

\* class.store mockClasses at construction
mockClasses0 == <<
    [id |-> 1, name |-> "Mathematics 101", section_number |-> "A", teacher_id |-> 1,
     students |-> <<mockStudents[1], mockStudents[2], mockStudents[3]>>,
     courses |-> <<class_mockCourses[1]>>],
    [id |-> 2, name |-> "Physics 201", section_number |-> "B", teacher_id |-> 1,
     students |-> <<mockStudents[2], mockStudents[4], mockStudents[5]>>,
     courses |-> <<class_mockCourses[2]>>],
    [id |-> 3, name |-> "Literature 101", section_number |-> "C", teacher_id |-> 3,
     students |-> <<mockStudents[1], mockStudents[3], mockStudents[6]>>,
     courses |-> <<class_mockCourses[3]>>] >>

-----------------------------------------------------------------------------
(* auth.store getters *)

\* authStore.user?.id
UserId == IF auth_user = None THEN Undefined ELSE auth_user[1].id

\* mutant of isTeacher: the role is not looked at, any user passes
isTeacher_AnyUser == auth_user # None

isTeacher == auth_user # None /\ auth_user[1].role = "teacher"

isStudent == auth_user # None /\ auth_user[1].role = "student"

\* JSON.stringify(user): the serialised fields of a User
Stringify(u) == <<"id", u.id, "email", u.email, "name", u.name, "role", u.role>>

\* JSON.parse of a stored User
Parse(j) == [id |-> j[2], email |-> j[4], name |-> j[6], role |-> j[8]]

-----------------------------------------------------------------------------
(* Calls and returns *)

\* the prologue of an asynchronous operation ends at its await: the call waits
\* for its timer behind the calls made before it
Suspend(call) == pending' = Append(pending, call)

CanSuspend == Len(pending) < MaxPending

\* the head of `pending` is the call whose timer fires next
Resuming(op) == pending # <<>> /\ Head(pending).op = op

Return(call, value) == ret' = Some([call |-> call, value |-> value])

-----------------------------------------------------------------------------
(* auth.store actions *)

\* login, lines 35-40
CallLogin(credentials) ==
    /\ CanSuspend
    /\ auth_isLoading' = TRUE
    /\ auth_error' = None
    /\ Suspend([op |-> "login", credentials |-> credentials])
    /\ ret' = None
    /\ UNCHANGED <<auth_user, auth_isAuthenticated, localStorage, classVars, courseVars, viewVars>>

\* login, line 43: mockUsers.find(u => u.email === credentials.email)
FindUser(email) ==
    LET found == SelectSeq(mockUsers, LAMBDA u : u.email = email)
    IN  IF found = <<>> THEN None ELSE Some(Head(found))

\* the password check of login, line 45
PasswordOk(credentials) == credentials.password = "password"

\* login, lines 43-72
ResumeLogin ==
    /\ Resuming("login")
    /\ LET call == Head(pending)
           foundUser == FindUser(call.credentials.email)
       IN  IF foundUser # None /\ PasswordOk(call.credentials)
           THEN /\ auth_user' = foundUser
                /\ auth_isAuthenticated' = TRUE
                /\ localStorage' = Some(Stringify(foundUser[1]))
                /\ auth_error' = auth_error
                /\ Return(call, [user |-> foundUser, success |-> TRUE])
           ELSE /\ auth_error' = Some("Invalid email or password")
                /\ Return(call, [user |-> None, success |-> FALSE,
                                 message |-> "Invalid email or password"])
                /\ UNCHANGED <<auth_user, auth_isAuthenticated, localStorage>>
    /\ auth_isLoading' = FALSE
    /\ pending' = Tail(pending)
    /\ UNCHANGED <<classVars, courseVars, viewVars>>

\* logout, lines 78-82
Logout ==
    /\ auth_user' = None
    /\ auth_isAuthenticated' = FALSE
    /\ localStorage' = None
    /\ ret' = None
    /\ UNCHANGED <<auth_isLoading, auth_error, classVars, courseVars, viewVars, pending>>

\* mutant of InitAuth: the user is restored, isAuthenticated is not set
InitAuth_UserOnly ==
    /\ IF localStorage # None
       THEN /\ auth_user' = Some(Parse(localStorage[1]))
            /\ UNCHANGED auth_isAuthenticated
       ELSE UNCHANGED <<auth_user, auth_isAuthenticated>>
    /\ ret' = None
    /\ UNCHANGED <<auth_isLoading, auth_error, localStorage, classVars, courseVars, viewVars, pending>>

\* initAuth, lines 87-98: JSON.parse of what login stored does not throw
InitAuth ==
    /\ IF localStorage # None
       THEN /\ auth_user' = Some(Parse(localStorage[1]))
            /\ auth_isAuthenticated' = TRUE
       ELSE UNCHANGED <<auth_user, auth_isAuthenticated>>
    /\ ret' = None
    /\ UNCHANGED <<auth_isLoading, auth_error, localStorage, classVars, courseVars, viewVars, pending>>

-----------------------------------------------------------------------------
(* class.store getters *)

\* mutant of teacherClasses: the filter on teacher_id left out
teacherClasses_Unfiltered == IF auth_user = None THEN <<>> ELSE classes

\* teacherClasses, lines 178-181
teacherClasses ==
    IF auth_user = None THEN <<>>
    ELSE SelectSeq(classes, LAMBDA c : c.teacher_id = UserId)

\* mutant of HasStudent: !== for ===
HasStudent_NotEqual(c, id) == \E i \in 1..Len(c.students) : c.students[i] # id

\* c.students?.some(student => student.id === authStore.user?.id)
HasStudent(c, id) == \E i \in 1..Len(c.students) : c.students[i] = id

\* studentClasses, lines 183-191
studentClasses ==
    IF auth_user = None \/ auth_user[1].role # "student" THEN <<>>
    ELSE SelectSeq(mockClasses, LAMBDA c : HasStudent(c, UserId))

-----------------------------------------------------------------------------
(* class.store actions *)

\* fetchClasses, lines 198-205
CallFetchClasses ==
    LET call == [op |-> "fetchClasses"]
    IN  IF ~auth_isAuthenticated
        THEN /\ Return(call, "undefined")
             /\ UNCHANGED <<authVars, classVars, courseVars, viewVars, localStorage, pending>>
        ELSE /\ CanSuspend
             /\ class_isLoading' = TRUE
             /\ class_error' = None
             /\ Suspend(call)
             /\ ret' = None
             /\ UNCHANGED <<classes, currentClass, mockClasses, authVars, courseVars, viewVars,
                            localStorage>>

\* fetchClasses, lines 213-234: JSON.parse(JSON.stringify(x)) is a deep copy
ResumeFetchClasses ==
    /\ Resuming("fetchClasses")
    /\ classes' = IF isTeacher
                  THEN SelectSeq(mockClasses, LAMBDA c : c.teacher_id = UserId)
                  ELSE SelectSeq(mockClasses, LAMBDA c : HasStudent(c, UserId))
    /\ class_isLoading' = FALSE
    /\ Return(Head(pending), "undefined")
    /\ pending' = Tail(pending)
    /\ UNCHANGED <<currentClass, class_error, mockClasses, authVars, courseVars, viewVars,
                   localStorage>>

\* fetchClassById, lines 241-246
CallFetchClassById(classId) ==
    /\ CanSuspend
    /\ class_isLoading' = TRUE
    /\ class_error' = None
    /\ Suspend([op |-> "fetchClassById", classId |-> classId])
    /\ ret' = None
    /\ UNCHANGED <<classes, currentClass, mockClasses, authVars, courseVars, viewVars, localStorage>>

\* fetchClassById, lines 249-261
ResumeFetchClassById ==
    /\ Resuming("fetchClassById")
    /\ LET call == Head(pending)
           foundClass == Find(mockClasses, call.classId)
       IN  /\ IF foundClass # None
              THEN currentClass' = foundClass /\ class_error' = class_error
              ELSE class_error' = Some("Class not found") /\ currentClass' = currentClass
           /\ Return(call, "undefined")
    /\ class_isLoading' = FALSE
    /\ pending' = Tail(pending)
    /\ UNCHANGED <<classes, mockClasses, authVars, courseVars, viewVars, localStorage>>

\* addCourseToClass, lines 268-273
CallAddCourseToClass(operation) ==
    /\ CanSuspend
    /\ class_isLoading' = TRUE
    /\ class_error' = None
    /\ Suspend([op |-> "addCourseToClass", operation |-> operation])
    /\ ret' = None
    /\ UNCHANGED <<classes, currentClass, mockClasses, authVars, courseVars, viewVars, localStorage>>

\* mutants of AlreadyAssigned: the check left out; the course id compared with the
\* id of the class
AlreadyAssigned_Never(classToUpdate, courseToAdd) == FALSE

AlreadyAssigned_ByClassId(classToUpdate, courseToAdd) ==
    \E i \in 1..Len(classToUpdate.courses) : classToUpdate.courses[i].id = classToUpdate.id

\* addCourseToClass, line 285: the course is already assigned to the class
AlreadyAssigned(classToUpdate, courseToAdd) ==
    \E i \in 1..Len(classToUpdate.courses) : classToUpdate.courses[i].id = courseToAdd.id

\* mutant of FindCourseToAdd: = for ===, the callback assigns the id and find
\* returns the first course
FindCourseToAdd_Assign(course_id) == Some([class_mockCourses[1] EXCEPT !.id = course_id])

\* addCourseToClass, line 277: the lookup of the course in class.store's mockCourses
FindCourseToAdd(course_id) == Find(class_mockCourses, course_id)

\* mutant of PushCourse: the course list is replaced by the one course
PushCourse_Replace(cs, i, courseToAdd) == [cs EXCEPT ![i].courses = <<courseToAdd>>]

\* addCourseToClass, line 294: classToUpdate.courses.push(courseToAdd)
PushCourse(cs, i, courseToAdd) == [cs EXCEPT ![i].courses = Append(@, courseToAdd)]

\* mutant of ResumeAddCourseToClass: the call is dropped, with false, when nobody
\* is logged in any more as its delay ends
ResumeAddCourseToClass_IfLoggedIn ==
    /\ Resuming("addCourseToClass")
    /\ LET call == Head(pending)
           operation == call.operation
           i == FindIndex(mockClasses, operation.class_id)
           courseToAdd == FindCourseToAdd(operation.course_id)
       IN  IF ~auth_isAuthenticated
           THEN /\ Return(call, FALSE)
                /\ UNCHANGED <<classes, currentClass, mockClasses, class_error>>
           ELSE IF i = 0 \/ courseToAdd = None
           THEN /\ class_error' = Some("Class or course not found")
                /\ Return(call, FALSE)
                /\ UNCHANGED <<classes, currentClass, mockClasses>>
           ELSE IF AlreadyAssigned(mockClasses[i], courseToAdd[1])
           THEN /\ class_error' = Some("Course is already assigned to this class")
                /\ Return(call, FALSE)
                /\ UNCHANGED <<classes, currentClass, mockClasses>>
           ELSE /\ mockClasses' = PushCourse(mockClasses, i, courseToAdd[1])
                /\ currentClass' =
                      IF currentClass # None /\ currentClass[1].id = operation.class_id
                      THEN Some(mockClasses'[i]) ELSE currentClass
                /\ classes' = mockClasses'
                /\ class_error' = class_error
                /\ Return(call, TRUE)
    /\ class_isLoading' = FALSE
    /\ pending' = Tail(pending)
    /\ UNCHANGED <<authVars, courseVars, viewVars, localStorage>>

\* addCourseToClass, lines 276-311
ResumeAddCourseToClass ==
    /\ Resuming("addCourseToClass")
    /\ LET call == Head(pending)
           operation == call.operation
           i == FindIndex(mockClasses, operation.class_id)
           courseToAdd == FindCourseToAdd(operation.course_id)
       IN  IF i = 0 \/ courseToAdd = None
           THEN /\ class_error' = Some("Class or course not found")
                /\ Return(call, FALSE)
                /\ UNCHANGED <<classes, currentClass, mockClasses>>
           ELSE IF AlreadyAssigned(mockClasses[i], courseToAdd[1])
           THEN /\ class_error' = Some("Course is already assigned to this class")
                /\ Return(call, FALSE)
                /\ UNCHANGED <<classes, currentClass, mockClasses>>
           ELSE /\ mockClasses' = PushCourse(mockClasses, i, courseToAdd[1])
                /\ currentClass' =
                      IF currentClass # None /\ currentClass[1].id = operation.class_id
                      THEN Some(mockClasses'[i]) ELSE currentClass
                /\ classes' = mockClasses'
                /\ class_error' = class_error
                /\ Return(call, TRUE)
    /\ class_isLoading' = FALSE
    /\ pending' = Tail(pending)
    /\ UNCHANGED <<authVars, courseVars, viewVars, localStorage>>

\* removeCourseFromClass, lines 318-323
CallRemoveCourseFromClass(operation) ==
    /\ CanSuspend
    /\ class_isLoading' = TRUE
    /\ class_error' = None
    /\ Suspend([op |-> "removeCourseFromClass", operation |-> operation])
    /\ ret' = None
    /\ UNCHANGED <<classes, currentClass, mockClasses, authVars, courseVars, viewVars, localStorage>>

\* mutant of FilterOutCourse: the course is filtered out of every class
FilterOutCourse_EveryClass(cs, i, course_id) ==
    [j \in 1..Len(cs) |->
        [cs[j] EXCEPT !.courses = SelectSeq(@, LAMBDA c : c.id # course_id)]]

\* mutant of FilterOutCourse: === for !==, the filter keeps the course it is to drop
FilterOutCourse_Keep(cs, i, course_id) ==
    [cs EXCEPT ![i].courses = SelectSeq(@, LAMBDA c : c.id = course_id)]

\* removeCourseFromClass, line 334: courses.filter(c => c.id !== operation.course_id)
FilterOutCourse(cs, i, course_id) ==
    [cs EXCEPT ![i].courses = SelectSeq(@, LAMBDA c : c.id # course_id)]

\* removeCourseFromClass, lines 326-351; every mock class has a courses array
ResumeRemoveCourseFromClass ==
    /\ Resuming("removeCourseFromClass")
    /\ LET call == Head(pending)
           operation == call.operation
           i == FindIndex(mockClasses, operation.class_id)
       IN  IF i = 0
           THEN /\ class_error' = Some("Class not found or has no courses")
                /\ Return(call, FALSE)
                /\ UNCHANGED <<classes, currentClass, mockClasses>>
           ELSE /\ mockClasses' = FilterOutCourse(mockClasses, i, operation.course_id)
                /\ currentClass' =
                      IF currentClass # None /\ currentClass[1].id = operation.class_id
                      THEN Some(mockClasses'[i]) ELSE currentClass
                /\ classes' = mockClasses'
                /\ class_error' = class_error
                /\ Return(call, TRUE)
    /\ class_isLoading' = FALSE
    /\ pending' = Tail(pending)
    /\ UNCHANGED <<authVars, courseVars, viewVars, localStorage>>

-----------------------------------------------------------------------------
(* course.store getters *)

\* teacherCourses, lines 80-83
teacherCourses ==
    IF auth_user = None THEN <<>>
    ELSE SelectSeq(courses, LAMBDA course : course.teacher_id = UserId)

-----------------------------------------------------------------------------
(* course.store actions *)

\* mutant of OwnCourses: the filter compares the id of the course with the user's
OwnCourses_ById(cs) == SelectSeq(cs, LAMBDA course : course.id = UserId)

\* mockCourses.filter(course => course.teacher_id === authStore.user?.id)
OwnCourses(cs) == SelectSeq(cs, LAMBDA course : course.teacher_id = UserId)

\* fetchCourses, lines 112-119
CallFetchCourses ==
    LET call == [op |-> "fetchCourses"]
    IN  IF ~auth_isAuthenticated
        THEN /\ Return(call, "undefined")
             /\ UNCHANGED <<authVars, classVars, courseVars, viewVars, localStorage, pending>>
        ELSE /\ CanSuspend
             /\ course_isLoading' = TRUE
             /\ course_error' = None
             /\ Suspend(call)
             /\ ret' = None
             /\ UNCHANGED <<courses, filteredCourses, currentCourse, course_mockCourses,
                            authVars, classVars, viewVars, localStorage>>

\* fetchCourses, lines 122-138
ResumeFetchCourses ==
    /\ Resuming("fetchCourses")
    /\ courses' = IF isTeacher
                  THEN OwnCourses(course_mockCourses)
                  ELSE SubSeq(course_mockCourses, 1, 3)
    /\ filteredCourses' = courses'
    /\ course_isLoading' = FALSE
    /\ Return(Head(pending), "undefined")
    /\ pending' = Tail(pending)
    /\ UNCHANGED <<currentCourse, course_error, course_mockCourses, authVars, classVars, viewVars,
                   localStorage>>

\* fetchCourseById, lines 145-150
CallFetchCourseById(courseId) ==
    /\ CanSuspend
    /\ course_isLoading' = TRUE
    /\ course_error' = None
    /\ Suspend([op |-> "fetchCourseById", courseId |-> courseId])
    /\ ret' = None
    /\ UNCHANGED <<courses, filteredCourses, currentCourse, course_mockCourses,
                   authVars, classVars, viewVars, localStorage>>

\* fetchCourseById, lines 153-165
ResumeFetchCourseById ==
    /\ Resuming("fetchCourseById")
    /\ LET call == Head(pending)
           foundCourse == Find(course_mockCourses, call.courseId)
       IN  /\ IF foundCourse # None
              THEN currentCourse' = foundCourse /\ course_error' = course_error
              ELSE course_error' = Some("Course not found") /\ currentCourse' = currentCourse
           /\ Return(call, "undefined")
    /\ course_isLoading' = FALSE
    /\ pending' = Tail(pending)
    /\ UNCHANGED <<courses, filteredCourses, course_mockCourses, authVars, classVars, viewVars,
                   localStorage>>

\* Math.max(...mockCourses.map(c => c.id)): -Infinity for an empty array
MathMax(S) == IF S = {} THEN NegInfinity ELSE CHOOSE m \in S : \A x \in S : x <= m

\* createCourse, line 186: Math.max(...) + 1, and -Infinity + 1 is -Infinity
NewCourseId(cs) ==
    IF MathMax(Range(Ids(cs))) = NegInfinity THEN NegInfinity
    ELSE MathMax(Range(Ids(cs))) + 1

\* { ...course, ...courseData }: the five fields of a CourseRequest overwrite
Spread(course, courseData) ==
    [course EXCEPT !.title = courseData.title,
                   !.description = courseData.description,
                   !.date = courseData.date,
                   !.total_marks = courseData.total_marks,
                   !.difficulty_rating = courseData.difficulty_rating]

\* the createCourse calls already suspended
PendingCreates == Len(SelectSeq(pending, LAMBDA c : c.op = "createCourse"))

\* createCourse, lines 172-182; `caller` records who made the call
CallCreateCourse(courseData) ==
    LET call == [op |-> "createCourse", courseData |-> courseData, caller |-> UserId]
    IN  IF ~isTeacher
        THEN /\ course_error' = Some("Only teachers can create courses")
             /\ Return(call, None)
             /\ UNCHANGED <<courses, filteredCourses, currentCourse, course_isLoading,
                            course_mockCourses, authVars, classVars, viewVars, localStorage, pending>>
        ELSE /\ CanSuspend
             /\ Len(course_mockCourses) + PendingCreates < MaxCourses
             /\ MathMax(Range(Ids(course_mockCourses))) + PendingCreates < MaxCourseId
             /\ course_isLoading' = TRUE
             /\ course_error' = None
             /\ Suspend(call)
             /\ ret' = None
             /\ UNCHANGED <<courses, filteredCourses, currentCourse, course_mockCourses,
                            authVars, classVars, viewVars, localStorage>>

\* createCourse, lines 185-189: the new course object
NewCourse(cs, courseData, userId) ==
    [Spread(MkCourse(NewCourseId(cs), "", "", "", 0, "", userId), courseData)
        EXCEPT !.teacher_id = userId]

\* the call was made by handleCreateCourse of CoursesView, which goes on when the
\* call returns (ResumeHandleCreateCourse)
FromCoursesView(call) == "view" \in DOMAIN call

\* createCourse, lines 185-205, called from anywhere but handleCreateCourse
ResumeCreateCourse ==
    /\ Resuming("createCourse")
    /\ ~FromCoursesView(Head(pending))
    /\ LET call == Head(pending)
           newCourse == NewCourse(course_mockCourses, call.courseData, UserId)
       IN  /\ course_mockCourses' = Append(course_mockCourses, newCourse)
           /\ courses' = OwnCourses(course_mockCourses')
           /\ filteredCourses' = courses'
           /\ Return(call, Some(newCourse))
    /\ course_isLoading' = FALSE
    /\ pending' = Tail(pending)
    /\ UNCHANGED <<currentCourse, course_error, authVars, classVars, viewVars, localStorage>>

\* updateCourse, lines 212-222
CallUpdateCourse(courseId, courseData) ==
    LET call == [op |-> "updateCourse", courseId |-> courseId, courseData |-> courseData,
                 caller |-> UserId]
    IN  IF ~isTeacher
        THEN /\ course_error' = Some("Only teachers can update courses")
             /\ Return(call, None)
             /\ UNCHANGED <<courses, filteredCourses, currentCourse, course_isLoading,
                            course_mockCourses, authVars, classVars, viewVars, localStorage, pending>>
        ELSE /\ CanSuspend
             /\ course_isLoading' = TRUE
             /\ course_error' = None
             /\ Suspend(call)
             /\ ret' = None
             /\ UNCHANGED <<courses, filteredCourses, currentCourse, course_mockCourses,
                            authVars, classVars, viewVars, localStorage>>

\* mutant of OwnsCourse: the ownership check left out
OwnsCourse_Unchecked(course, userId) == TRUE

\* updateCourse line 233, deleteCourse line 290: the teacher owns the course
OwnsCourse(course, userId) == course.teacher_id = userId

\* updateCourse, lines 225-262
ResumeUpdateCourse ==
    /\ Resuming("updateCourse")
    /\ LET call == Head(pending)
           courseIndex == FindIndex(course_mockCourses, call.courseId)
       IN  IF courseIndex = 0
           THEN /\ course_error' = Some("Course not found")
                /\ Return(call, None)
                /\ UNCHANGED <<courses, filteredCourses, currentCourse, course_mockCourses>>
           ELSE IF ~OwnsCourse(course_mockCourses[courseIndex], UserId)
           THEN /\ course_error' = Some("You can only update your own courses")
                /\ Return(call, None)
                /\ UNCHANGED <<courses, filteredCourses, currentCourse, course_mockCourses>>
           ELSE LET updatedCourse == Spread(course_mockCourses[courseIndex], call.courseData)
                IN  /\ course_mockCourses' =
                          [course_mockCourses EXCEPT ![courseIndex] = updatedCourse]
                    /\ courses' = OwnCourses(course_mockCourses')
                    /\ filteredCourses' = courses'
                    /\ currentCourse' =
                          IF currentCourse # None /\ currentCourse[1].id = call.courseId
                          THEN Some(updatedCourse) ELSE currentCourse
                    /\ course_error' = course_error
                    /\ Return(call, Some(updatedCourse))
    /\ course_isLoading' = FALSE
    /\ pending' = Tail(pending)
    /\ UNCHANGED <<authVars, classVars, viewVars, localStorage>>

\* deleteCourse, lines 269-279
CallDeleteCourse(courseId) ==
    LET call == [op |-> "deleteCourse", courseId |-> courseId, caller |-> UserId]
    IN  IF ~isTeacher
        THEN /\ course_error' = Some("Only teachers can delete courses")
             /\ Return(call, FALSE)
             /\ UNCHANGED <<courses, filteredCourses, currentCourse, course_isLoading,
                            course_mockCourses, authVars, classVars, viewVars, localStorage, pending>>
        ELSE /\ CanSuspend
             /\ course_isLoading' = TRUE
             /\ course_error' = None
             /\ Suspend(call)
             /\ ret' = None
             /\ UNCHANGED <<courses, filteredCourses, currentCourse, course_mockCourses,
                            authVars, classVars, viewVars, localStorage>>

\* deleteCourse, lines 282-314
ResumeDeleteCourse ==
    /\ Resuming("deleteCourse")
    /\ LET call == Head(pending)
           courseIndex == FindIndex(course_mockCourses, call.courseId)
       IN  IF courseIndex = 0
           THEN /\ course_error' = Some("Course not found")
                /\ Return(call, FALSE)
                /\ UNCHANGED <<courses, filteredCourses, currentCourse, course_mockCourses>>
           ELSE IF ~OwnsCourse(course_mockCourses[courseIndex], UserId)
           THEN /\ course_error' = Some("You can only delete your own courses")
                /\ Return(call, FALSE)
                /\ UNCHANGED <<courses, filteredCourses, currentCourse, course_mockCourses>>
           ELSE /\ course_mockCourses' = Splice1(course_mockCourses, courseIndex)
                /\ courses' = OwnCourses(course_mockCourses')
                /\ filteredCourses' = courses'
                /\ currentCourse' =
                      IF currentCourse # None /\ currentCourse[1].id = call.courseId
                      THEN None ELSE currentCourse
                /\ course_error' = course_error
                /\ Return(call, TRUE)
    /\ course_isLoading' = FALSE
    /\ pending' = Tail(pending)
    /\ UNCHANGED <<authVars, classVars, viewVars, localStorage>>

\* filterCourses, lines 320-351, for filters that give a difficulty only
FilterCourses(filters) ==
    /\ filteredCourses' =
          SelectSeq(courses, LAMBDA course : course.difficulty_rating = filters.difficulty)
    /\ ret' = None
    /\ UNCHANGED <<courses, currentCourse, course_isLoading, course_error,
                   course_mockCourses, authVars, classVars, viewVars, localStorage, pending>>

\* resetFilters, lines 356-358
ResetFilters ==
    /\ filteredCourses' = courses
    /\ ret' = None
    /\ UNCHANGED <<courses, currentCourse, course_isLoading, course_error,
                   course_mockCourses, authVars, classVars, viewVars, localStorage, pending>>

-----------------------------------------------------------------------------
(* CourseForm.vue and the handlers of CoursesView (src/unnamed/part_008).  Of   *)
(* the refs of the two components, errors and selectedCourse are state; the     *)
(* others (showCreateForm, the messages, the view's own isLoading) are left out. *)

\* CourseForm.vue line 84: the longest title validateForm accepts
MaxTitleLength == 100

\* CourseForm.vue lines 25-30 and 73-78: no field has an error message
NoErrors == [title |-> "", description |-> "", date |-> "", totalMarks |-> ""]

\* !s.trim(): the string is empty or white space only
IsBlank(s) == s \in {"", " ", "   "}

\* CourseForm.vue line 105: the highest total marks validateForm accepts
MaxTotalMarks == 1000

\* validateForm, lines 69-111: the value returned (isValid)
validateForm(form) ==
    /\ ~IsBlank(form.title) /\ ~(Len(form.title) > MaxTitleLength)
    /\ ~IsBlank(form.description)
    /\ form.date # ""
    /\ ~(form.totalMarks = 0 \/ form.totalMarks <= 0) /\ ~(form.totalMarks > MaxTotalMarks)

\* validateForm, lines 73-108: errors.value after the validation of the form
FormErrors(form) ==
    [title |-> IF IsBlank(form.title) THEN "Title is required"
               ELSE IF Len(form.title) > MaxTitleLength
               THEN "Title must be less than 100 characters"
               ELSE "",
     description |-> IF IsBlank(form.description) THEN "Description is required" ELSE "",
     date |-> IF form.date = "" THEN "Date is required" ELSE "",
     totalMarks |-> IF form.totalMarks = 0 \/ form.totalMarks <= 0
                    THEN "Total marks must be greater than 0"
                    ELSE IF form.totalMarks > MaxTotalMarks
                    THEN "Total marks must be less than 1000"
                    ELSE ""]

\* handleSubmit, lines 119-125: the CourseRequest that is emitted
CourseRequestOf(form) ==
    [title |-> form.title, description |-> form.description, date |-> form.date,
     total_marks |-> form.totalMarks, difficulty_rating |-> form.difficultyRating]

\* CoursesView toggleCreateForm, part_008 lines 500-503: the form is opened for a
\* new course or closed; the selection is cleared
ToggleCreateForm ==
    /\ selectedCourse' = None
    /\ ret' = None
    /\ UNCHANGED <<authVars, classVars, courseVars, localStorage, pending, errors,
                   dragVars>>

\* CoursesView handleEditCourse, part_008 lines 526-529: a course of the list the
\* view shows (courseStore.teacherCourses) is selected and the form is opened with
\* it as its `course` prop
HandleEditCourse(course) ==
    /\ course \in Range(teacherCourses)
    /\ selectedCourse' = Some(course)
    /\ ret' = None
    /\ UNCHANGED <<authVars, classVars, courseVars, localStorage, pending, errors,
                   dragVars>>

\* CourseForm handleSubmit, lines 114-128, whose 'submit' event CoursesView handles
\* with handleCreateCourse (part_008 lines 506-508 and 646-650) whether or not a
\* course is selected: nothing is emitted for a form that is not valid; otherwise
\* courseStore.createCourse runs to its await.  `course` records the `course` prop
\* of the form that was submitted
HandleSubmit(form) ==
    LET call == [op |-> "createCourse", courseData |-> CourseRequestOf(form),
                 caller |-> UserId, view |-> "CoursesView", course |-> selectedCourse]
    IN  /\ errors' = FormErrors(form)
        /\ UNCHANGED <<selectedCourse, dragVars>>
        /\ IF ~validateForm(form)
           THEN /\ ret' = None
                /\ UNCHANGED <<authVars, classVars, courseVars, localStorage, pending>>
           ELSE IF ~isTeacher
           THEN /\ course_error' = Some("Only teachers can create courses")
                /\ Return(call, None)
                /\ UNCHANGED <<courses, filteredCourses, currentCourse, course_isLoading,
                               course_mockCourses, authVars, classVars, localStorage,
                               pending>>
           ELSE /\ CanSuspend
                /\ Len(course_mockCourses) + PendingCreates < MaxCourses
                /\ MathMax(Range(Ids(course_mockCourses))) + PendingCreates < MaxCourseId
                /\ course_isLoading' = TRUE
                /\ course_error' = None
                /\ Suspend(call)
                /\ ret' = None
                /\ UNCHANGED <<courses, filteredCourses, currentCourse, course_mockCourses,
                               authVars, classVars, localStorage>>

\* createCourse lines 185-205 for a call of handleCreateCourse, and then
\* handleCreateCourse, part_008 lines 509-512: the course returned is an object, so
\* the view calls its fetchCourses (lines 478-483), which runs
\* courseStore.fetchCourses to its await (course.store lines 112-119)
ResumeHandleCreateCourse ==
    /\ Resuming("createCourse")
    /\ FromCoursesView(Head(pending))
    /\ LET call == Head(pending)
           newCourse == NewCourse(course_mockCourses, call.courseData, UserId)
       IN  /\ course_mockCourses' = Append(course_mockCourses, newCourse)
           /\ courses' = OwnCourses(course_mockCourses')
           /\ filteredCourses' = courses'
           /\ Return(call, Some(newCourse))
    /\ IF auth_isAuthenticated
       THEN /\ course_isLoading' = TRUE
            /\ course_error' = None
            /\ pending' = Append(Tail(pending), [op |-> "fetchCourses"])
       ELSE /\ course_isLoading' = FALSE
            /\ course_error' = course_error
            /\ pending' = Tail(pending)
    /\ UNCHANGED <<currentCourse, authVars, classVars, viewVars, localStorage>>

-----------------------------------------------------------------------------
(* The dashboard components that handle drops: the two variants of            *)
(* DragDropContainer (src/unnamed/part_005, scripts at lines 66-361 and       *)
(* 549-789), mounted by the DashboardView of part_007, and the DashboardView  *)
(* that handles drops itself (src/unnamed/part_008, lines 1-208).  One of the *)
(* three is mounted in a run.  An asynchronous handler is suspended at the    *)
(* await of its call on the class store and goes on in the task in which that *)
(* call returns; what a handler emits is recorded in the value it returns     *)
(* with.  The listeners of DashboardView (handleClassUpdated, which calls     *)
(* fetchClasses and fetchCourses) are the store calls of the specifications.  *)

\* DashboardView classes, part_007 lines 68-70: the `classes` prop
PropsClasses == IF isTeacher THEN teacherClasses ELSE studentClasses

\* DashboardView courses, part_007 lines 72-74: the `courses` prop
PropsCourses == IF isTeacher THEN teacherCourses ELSE <<>>

\* utils/dragAndDrop canClassAcceptCourse, part_004 lines 99-109
canClassAcceptCourse(classItem, courseId) ==
    ~\E i \in 1..Len(classItem.courses) : classItem.courses[i].id = courseId

\* emit('error', message)
ErrorEvent(message) == [event |-> "error", message |-> message]

\* emit('classUpdated', { classId, courseId })
ClassUpdated(classId, courseId) ==
    [event |-> "classUpdated", classId |-> classId, courseId |-> courseId]

\* emit('classUpdated', { classId, courseId, action: 'remove' })
ClassUpdatedRemove(classId, courseId) ==
    [event |-> "classUpdated", classId |-> classId, courseId |-> courseId,
     action |-> "remove"]

\* the course a drop event carries in its dataTransfer (set by handleDragStart),
\* looked up in the `courses` prop: None when the event carries no course
CourseFromEvent(event) ==
    IF event.courseId = None THEN None ELSE Find(PropsCourses, event.courseId[1])

\* the TypeError of draggingCourse.value.id when draggingCourse.value is null
NullTypeError == "Cannot read properties of null (reading 'id')"

\* DragDropContainer handleDragStart, part_005 lines 122-144 and 600-621
HandleDragStart(course) ==
    /\ draggingCourse' = Some(course)
    /\ dragError' = None
    /\ successMessage' = None
    /\ ret' = None
    /\ UNCHANGED <<assignmentHistory, drag_isLoading, errorMessage, selectedCourse, errors,
                   authVars, classVars, courseVars, localStorage, pending>>

\* handleDragEnd, part_005 lines 146-151 and 623-627, part_008 lines 127-130
HandleDragEnd ==
    /\ draggingCourse' = None
    /\ ret' = None
    /\ UNCHANGED <<dragError, successMessage, assignmentHistory, drag_isLoading,
                   errorMessage, selectedCourse, errors, authVars, classVars, courseVars,
                   localStorage, pending>>

\* the timer of clearMessages, part_005 lines 109-114 and 592-597, fires: every
\* assignment of a message is followed by a call of clearMessages, so a timer is
\* set whenever a message is shown
ClearMessages ==
    /\ dragError # None \/ successMessage # None
    /\ dragError' = None
    /\ successMessage' = None
    /\ ret' = None
    /\ UNCHANGED <<draggingCourse, assignmentHistory, drag_isLoading, errorMessage,
                   selectedCourse, errors, authVars, classVars, courseVars, localStorage,
                   pending>>

\* addCourseToClass, part_001 lines 276-311, awaited by a handler: `result` is
\* the value it returns
AddCourseToClassBody(operation, result) ==
    LET i == FindIndex(mockClasses, operation.class_id)
        courseToAdd == FindCourseToAdd(operation.course_id)
    IN  /\ IF i = 0 \/ courseToAdd = None
           THEN /\ class_error' = Some("Class or course not found")
                /\ result = FALSE
                /\ UNCHANGED <<classes, currentClass, mockClasses>>
           ELSE IF AlreadyAssigned(mockClasses[i], courseToAdd[1])
           THEN /\ class_error' = Some("Course is already assigned to this class")
                /\ result = FALSE
                /\ UNCHANGED <<classes, currentClass, mockClasses>>
           ELSE /\ mockClasses' = PushCourse(mockClasses, i, courseToAdd[1])
                /\ currentClass' =
                      IF currentClass # None /\ currentClass[1].id = operation.class_id
                      THEN Some(mockClasses'[i]) ELSE currentClass
                /\ classes' = mockClasses'
                /\ class_error' = class_error
                /\ result = TRUE
        /\ class_isLoading' = FALSE

\* removeCourseFromClass, part_001 lines 326-351, awaited by a handler
RemoveCourseFromClassBody(operation, result) ==
    LET i == FindIndex(mockClasses, operation.class_id)
    IN  /\ IF i = 0
           THEN /\ class_error' = Some("Class not found or has no courses")
                /\ result = FALSE
                /\ UNCHANGED <<classes, currentClass, mockClasses>>
           ELSE /\ mockClasses' = FilterOutCourse(mockClasses, i, operation.course_id)
                /\ currentClass' =
                      IF currentClass # None /\ currentClass[1].id = operation.class_id
                      THEN Some(mockClasses'[i]) ELSE currentClass
                /\ classes' = mockClasses'
                /\ class_error' = class_error
                /\ result = TRUE
        /\ class_isLoading' = FALSE

\* the watcher of classStore.error, part_005 lines 344-351 and 782-788: what it
\* emits when the error of the class store changes to a message in this step
WatchedError ==
    IF class_error' # None /\ class_error' # class_error
    THEN <<ErrorEvent(class_error'[1])>> ELSE <<>>

\* the prologue of addCourseToClass (part_001 lines 268-273) run by a handler
\* that then waits for the call
AwaitAddCourseToClass(call) ==
    /\ CanSuspend
    /\ class_isLoading' = TRUE
    /\ class_error' = None
    /\ Suspend(call)
    /\ ret' = None
    /\ UNCHANGED <<classes, currentClass, mockClasses>>

\* a handler that returns in the task of the event, with the error it shows
DropRejected(call, message) ==
    /\ dragError' = Some(message)
    /\ Return(call, [emitted |-> <<ErrorEvent(message)>>])
    /\ UNCHANGED <<successMessage, assignmentHistory, classVars, pending>>

\* first variant of DragDropContainer, handleDrop to its await, part_005 lines
\* 184-259; a return from inside the try block runs the finally block (lines
\* 287-291)
DragDrop1_HandleDrop(classId, event) ==
    LET targetClass == Find(PropsClasses, classId)
        courseToAssign == IF draggingCourse # None THEN draggingCourse
                          ELSE CourseFromEvent(event)
        call == [op |-> "handleDrop", component |-> "DragDropContainer1",
                 classId |-> classId, targetClass |-> targetClass,
                 courseToAssign |-> courseToAssign]
    IN  /\ IF targetClass = None
           THEN /\ DropRejected(call, "Target class not found")
                /\ UNCHANGED <<draggingCourse, drag_isLoading>>
           ELSE IF courseToAssign = None
           THEN /\ DropRejected(call, "Unable to determine which course was dropped")
                /\ UNCHANGED <<draggingCourse, drag_isLoading>>
           ELSE IF ~canClassAcceptCourse(targetClass[1], courseToAssign[1].id)
           THEN /\ DropRejected(call, "Course \"" \o courseToAssign[1].title
                                      \o "\" is already assigned to this class")
                /\ draggingCourse' = None
                /\ drag_isLoading' = FALSE
           ELSE /\ drag_isLoading' = TRUE
                /\ AwaitAddCourseToClass(call)
                /\ UNCHANGED <<draggingCourse, dragError, successMessage,
                               assignmentHistory>>
        /\ UNCHANGED <<errorMessage, selectedCourse, errors, authVars, courseVars,
                       localStorage>>

\* first variant of DragDropContainer, handleDrop from the return of
\* addCourseToClass, part_005 lines 256-291: the course and the class are those
\* the handler found before the await
DragDrop1_ResumeHandleDrop ==
    /\ Resuming("handleDrop")
    /\ Head(pending).component = "DragDropContainer1"
    /\ LET call == Head(pending)
           course == call.courseToAssign[1]
           operation == [class_id |-> call.classId, course_id |-> course.id]
       IN  \E result \in BOOLEAN :
             /\ AddCourseToClassBody(operation, result)
             /\ IF result
                THEN /\ assignmentHistory' =
                           Append(assignmentHistory,
                                  [courseId |-> course.id, classId |-> call.classId])
                     /\ successMessage' =
                           Some("Course \"" \o course.title \o "\" successfully assigned to "
                                \o call.targetClass[1].name)
                     /\ dragError' = dragError
                     /\ Return(call, [result |-> TRUE,
                                      emitted |-> <<ClassUpdated(call.classId, course.id)>>])
                ELSE /\ dragError' = class_error'
                     /\ Return(call, [result |-> FALSE,
                                      emitted |-> WatchedError
                                                  \o <<ErrorEvent(class_error'[1])>>])
                     /\ UNCHANGED <<assignmentHistory, successMessage>>
    /\ draggingCourse' = None
    /\ drag_isLoading' = FALSE
    /\ pending' = Tail(pending)
    /\ UNCHANGED <<errorMessage, selectedCourse, errors, authVars, courseVars,
                   localStorage>>

\* second variant of DragDropContainer, handleDrop to its await, part_005 lines
\* 660-707: the course is kept in draggingCourse, not in a variable of the
\* handler; a class that is not found is passed over without a message
DragDrop2_HandleDrop(classId, event) ==
    LET recovered == IF draggingCourse # None THEN draggingCourse
                     ELSE CourseFromEvent(event)
        targetClass == Find(PropsClasses, classId)
        call == [op |-> "handleDrop", component |-> "DragDropContainer2",
                 classId |-> classId, targetClass |-> targetClass,
                 course_id |-> IF recovered = None THEN Undefined ELSE recovered[1].id]
    IN  /\ IF recovered = None
           THEN /\ DropRejected(call, "Unable to determine which course was dropped")
                /\ UNCHANGED <<draggingCourse, drag_isLoading>>
           ELSE IF targetClass = None
           THEN /\ Return(call, [emitted |-> <<>>])
                /\ draggingCourse' = None
                /\ drag_isLoading' = FALSE
                /\ UNCHANGED <<dragError, successMessage, assignmentHistory, classVars,
                               pending>>
           ELSE IF ~canClassAcceptCourse(targetClass[1], recovered[1].id)
           THEN /\ DropRejected(call, "Course \"" \o recovered[1].title
                                      \o "\" is already assigned to this class")
                /\ draggingCourse' = None
                /\ drag_isLoading' = FALSE
           ELSE /\ draggingCourse' = recovered
                /\ drag_isLoading' = TRUE
                /\ AwaitAddCourseToClass(call)
                /\ UNCHANGED <<dragError, successMessage, assignmentHistory>>
        /\ UNCHANGED <<errorMessage, selectedCourse, errors, authVars, courseVars,
                       localStorage>>

\* second variant of DragDropContainer, handleDrop from the return of
\* addCourseToClass, part_005 lines 704-735: lines 712, 717 and 718 read
\* draggingCourse.value again; when it is null, line 712 throws a TypeError before
\* anything is pushed and the catch block (lines 727-730) shows its message
DragDrop2_ResumeHandleDrop ==
    /\ Resuming("handleDrop")
    /\ Head(pending).component = "DragDropContainer2"
    /\ LET call == Head(pending)
           operation == [class_id |-> call.classId, course_id |-> call.course_id]
       IN  \E result \in BOOLEAN :
             /\ AddCourseToClassBody(operation, result)
             /\ IF result /\ draggingCourse # None
                THEN /\ assignmentHistory' =
                           Append(assignmentHistory,
                                  [courseId |-> draggingCourse[1].id,
                                   classId |-> call.classId])
                     /\ successMessage' =
                           Some("Course \"" \o draggingCourse[1].title
                                \o "\" successfully assigned to "
                                \o call.targetClass[1].name)
                     /\ dragError' = dragError
                     /\ Return(call, [result |-> TRUE,
                                      emitted |-> <<ClassUpdated(call.classId,
                                                                 draggingCourse[1].id)>>])
                ELSE IF result
                THEN /\ dragError' = Some(NullTypeError)
                     /\ Return(call, [result |-> TRUE,
                                      emitted |-> <<ErrorEvent(NullTypeError)>>])
                     /\ UNCHANGED <<assignmentHistory, successMessage>>
                ELSE /\ dragError' = class_error'
                     /\ Return(call, [result |-> FALSE,
                                      emitted |-> WatchedError
                                                  \o <<ErrorEvent(class_error'[1])>>])
                     /\ UNCHANGED <<assignmentHistory, successMessage>>
    /\ draggingCourse' = None
    /\ drag_isLoading' = FALSE
    /\ pending' = Tail(pending)
    /\ UNCHANGED <<errorMessage, selectedCourse, errors, authVars, courseVars,
                   localStorage>>

\* DragDropContainer undoLastAssignment to its await, part_005 lines 295-307 and
\* 739-751 (the same in both variants); the button that calls it is shown for a
\* history that is not empty and disabled while isLoading (lines 404-410)
UndoLastAssignment ==
    /\ ~drag_isLoading
    /\ assignmentHistory # <<>>
    /\ LET lastAssignment == assignmentHistory[Len(assignmentHistory)]
       IN  /\ assignmentHistory' = SubSeq(assignmentHistory, 1, Len(assignmentHistory) - 1)
           /\ drag_isLoading' = TRUE
           /\ CanSuspend
           /\ class_isLoading' = TRUE
           /\ class_error' = None
           /\ Suspend([op |-> "undoLastAssignment", lastAssignment |-> lastAssignment])
           /\ ret' = None
    /\ UNCHANGED <<classes, currentClass, mockClasses, draggingCourse, dragError,
                   successMessage, errorMessage, selectedCourse, errors, authVars,
                   courseVars, localStorage>>

\* DragDropContainer undoLastAssignment from the return of removeCourseFromClass,
\* part_005 lines 304-324 and 748-768
ResumeUndoLastAssignment ==
    /\ Resuming("undoLastAssignment")
    /\ LET call == Head(pending)
           lastAssignment == call.lastAssignment
           operation == [class_id |-> lastAssignment.classId,
                         course_id |-> lastAssignment.courseId]
       IN  \E result \in BOOLEAN :
             /\ RemoveCourseFromClassBody(operation, result)
             /\ IF result
                THEN /\ successMessage' = Some("Last assignment undone successfully")
                     /\ dragError' = dragError
                     /\ Return(call, [result |-> TRUE,
                                      emitted |-> <<ClassUpdatedRemove(
                                                        lastAssignment.classId,
                                                        lastAssignment.courseId)>>])
                ELSE /\ dragError' = class_error'
                     /\ successMessage' = successMessage
                     /\ Return(call, [result |-> FALSE,
                                      emitted |-> WatchedError
                                                  \o <<ErrorEvent(class_error'[1])>>])
    /\ drag_isLoading' = FALSE
    /\ pending' = Tail(pending)
    /\ UNCHANGED <<draggingCourse, assignmentHistory, errorMessage, selectedCourse, errors,
                   authVars, courseVars, localStorage>>

\* DashboardView handleDragStart, part_008 lines 113-125
Dashboard_HandleDragStart(course) ==
    /\ draggingCourse' = Some(course)
    /\ ret' = None
    /\ UNCHANGED <<dragError, successMessage, assignmentHistory, drag_isLoading,
                   errorMessage, selectedCourse, errors, authVars, classVars, courseVars,
                   localStorage, pending>>

\* DashboardView handleDrop to its await, part_008 lines 141-176
Dashboard_HandleDrop(classId, event) ==
    LET courseToAssign == IF draggingCourse # None THEN draggingCourse
                          ELSE CourseFromEvent(event)
        call == [op |-> "handleDrop", component |-> "DashboardView",
                 classId |-> classId, courseToAssign |-> courseToAssign]
    IN  /\ IF courseToAssign = None
           THEN /\ errorMessage' =
                      "Failed to assign course to class. Could not determine course."
                /\ Return(call, [emitted |-> <<>>])
                /\ UNCHANGED <<classVars, pending>>
           ELSE /\ AwaitAddCourseToClass(call)
                /\ errorMessage' = errorMessage
        /\ UNCHANGED <<draggingCourse, dragError, successMessage, assignmentHistory,
                       drag_isLoading, selectedCourse, errors, authVars, courseVars,
                       localStorage>>

\* DashboardView handleDrop from the return of addCourseToClass, part_008 lines
\* 172-188: the value returned is not looked at, and the call does not throw
Dashboard_ResumeHandleDrop ==
    /\ Resuming("handleDrop")
    /\ Head(pending).component = "DashboardView"
    /\ LET call == Head(pending)
           operation == [class_id |-> call.classId,
                         course_id |-> call.courseToAssign[1].id]
       IN  \E result \in BOOLEAN :
             /\ AddCourseToClassBody(operation, result)
             /\ Return(call, [result |-> result, emitted |-> <<>>])
    /\ draggingCourse' = None
    /\ pending' = Tail(pending)
    /\ UNCHANGED <<errorMessage, dragError, successMessage, assignmentHistory,
                   drag_isLoading, selectedCourse, errors, authVars, courseVars,
                   localStorage>>

-----------------------------------------------------------------------------
(* Inputs *)

Teacher1 == [email |-> "teacher@example.com",  password |-> "password"]
Teacher3 == [email |-> "teacher2@example.com", password |-> "password"]
Student2 == [email |-> "student@example.com",  password |-> "password"]

\* credentials login refuses: a wrong password and an email of no user
WrongPassword == [email |-> "teacher@example.com", password |-> "wrong"]
UnknownEmail  == [email |-> "nobody@example.com",  password |-> "password"]
SessionLogins == {Teacher1, WrongPassword, UnknownEmail}

\* (class, course) pairs passed to the class store by Spec: the classes of teacher 1
\* and the courses 1 and 2 of class.store's mockCourses
AssignArgs == {[class_id |-> c, course_id |-> k] : c \in {1, 2}, k \in {1, 2}}

\* (class, course) pairs passed to the class store by SpecCross: class 1 or no
\* class, with a course of both fixtures (1), a course of course.store's fixture
\* only (5), the first created course (7), or no course; 99 is the id of no class
\* and of no course
CrossArgs == {[class_id |-> c, course_id |-> k] : c \in {1, 99},
                                                  k \in {1, 5, 7, 99}}

\* course ids passed to the course store by SpecOwner: a course of teacher 1 and
\* a course of teacher 3
OwnerArgs == {1, 3}

\* the payload of createCourse and updateCourse
Geometry ==
    [title |-> "Geometry", description |-> "Shapes and proofs", date |-> "2025-09-01",
     total_marks |-> 80, difficulty_rating |-> "advanced"]

\* (class, course) pairs passed to the class store by SpecList: a class of teacher 1
\* and the class of teacher 3, each with a course it does not hold at construction
ListArgs == {[class_id |-> 1, course_id |-> 2], [class_id |-> 3, course_id |-> 1]}

\* (class, course) pairs passed to the class store by SpecFrame: course 2 with
\* class 1, which does not hold it at construction, and with class 2, which does
FrameArgs == {[class_id |-> 1, course_id |-> 2], [class_id |-> 2, course_id |-> 2]}

\* (class, course) pairs passed to the class store by SpecErrors: a pair of the
\* fixture, two pairs that are absent at construction (course 2 of both fixtures,
\* course 5 of course.store's fixture only), and a pair whose class id (99) is the
\* id of no class
ErrorArgs == {[class_id |-> 1, course_id |-> 1], [class_id |-> 1, course_id |-> 2],
              [class_id |-> 1, course_id |-> 5], [class_id |-> 99, course_id |-> 1]}

\* (class, course) pairs passed to the class store by SpecLive: two pairs that are
\* absent at construction
LiveArgs == {[class_id |-> 1, course_id |-> 2], [class_id |-> 2, course_id |-> 1]}

\* a title of 101 characters, one more than MaxTitleLength
LongTitle ==
    "Introduction to the Geometry of Shapes, Proofs and Constructions for Students of the First Year, an E"

\* the payload of a createCourse call made on the store with the long title
LongGeometry == [Geometry EXCEPT !.title = LongTitle]

\* the form filled in with the fields of Geometry
GeometryForm ==
    [title |-> Geometry.title, description |-> Geometry.description, date |-> Geometry.date,
     totalMarks |-> Geometry.total_marks, difficultyRating |-> Geometry.difficulty_rating]

\* forms submitted in SpecForm: valid, with the long title, with a blank title
Forms == {GeometryForm, [GeometryForm EXCEPT !.title = LongTitle],
          [GeometryForm EXCEPT !.title = " "]}

\* a title of 100 characters, MaxTitleLength exactly
FullTitle ==
    "Introduction to the Geometry of Shapes, Proofs and Constructions for the Students of the First Years"

\* forms submitted in SpecBounds: valid; with the title and the total marks at
\* the limits of validateForm and one beyond them; with total marks 0; with a
\* blank title, a blank description, an empty date
BoundForms == {GeometryForm,
               [GeometryForm EXCEPT !.title = FullTitle],
               [GeometryForm EXCEPT !.title = LongTitle],
               [GeometryForm EXCEPT !.title = "   "],
               [GeometryForm EXCEPT !.totalMarks = MaxTotalMarks],
               [GeometryForm EXCEPT !.totalMarks = MaxTotalMarks + 1],
               [GeometryForm EXCEPT !.totalMarks = 0],
               [GeometryForm EXCEPT !.description = " "],
               [GeometryForm EXCEPT !.date = ""]}

\* forms submitted in SpecEdit: valid, and with a description left blank
EditForms == {GeometryForm, [GeometryForm EXCEPT !.description = ""]}

\* drop events: of a drag that carries no course (something else than a course
\* card is dropped) and of the drag of course 2
DropEvents == {[courseId |-> None], [courseId |-> Some(2)]}

\* the course cards dragged in the dashboard specifications: two courses of both
\* fixtures and a course of course.store's fixture only
DragCourseIds == {1, 2, 5}

\* the course cards dragged in SpecDrag2: the two courses of teacher 1 that the
\* class store resolves
RaceCourseIds == {1, 2}

-----------------------------------------------------------------------------
(* Specifications *)

\* the refs of the stores and of the components when the page has just loaded
Constructed ==
    /\ auth_user = None
    /\ auth_isAuthenticated = FALSE
    /\ auth_isLoading = FALSE
    /\ auth_error = None
    /\ classes = <<>>
    /\ currentClass = None
    /\ class_isLoading = FALSE
    /\ class_error = None
    /\ mockClasses = mockClasses0
    /\ courses = <<>>
    /\ filteredCourses = <<>>
    /\ currentCourse = None
    /\ course_isLoading = FALSE
    /\ course_error = None
    /\ course_mockCourses = course_mockCourses0
    /\ pending = <<>>
    /\ ret = None
    /\ selectedCourse = None
    /\ errors = NoErrors
    /\ draggingCourse = None
    /\ dragError = None
    /\ successMessage = None
    /\ assignmentHistory = <<>>
    /\ drag_isLoading = FALSE
    /\ errorMessage = ""

\* a first page load: the browser stores nothing for the page
Init == Constructed /\ localStorage = None

\* what login's localStorage.setItem('user', ...) of an earlier page load left
StoredUsers == {Some(Stringify(mockUsers[i])) : i \in {2, 3}}

\* any page load: the first, or one that finds the entry an earlier load's login
\* stored (localStorage outlives the page, the stores do not)
InitLoaded == Constructed /\ localStorage \in {None} \cup StoredUsers

\* the class store: assignment and the two fetches, in the session of teacher 1
Next ==
    \/ CallLogin(Teacher1)
    \/ ResumeLogin
    \/ Logout
    \/ CallFetchClasses
    \/ ResumeFetchClasses
    \/ \E classId \in {1, 2} : CallFetchClassById(classId)
    \/ ResumeFetchClassById
    \/ \E operation \in AssignArgs : CallAddCourseToClass(operation)
    \/ ResumeAddCourseToClass
    \/ \E operation \in AssignArgs : CallRemoveCourseFromClass(operation)
    \/ ResumeRemoveCourseFromClass

Spec == Init /\ [][Next]_vars

\* the class store together with creation and deletion in the course store, in
\* the session of teacher 1
NextCross ==
    \/ CallLogin(Teacher1)
    \/ ResumeLogin
    \/ CallCreateCourse(Geometry)
    \/ ResumeCreateCourse
    \/ CallDeleteCourse(1)
    \/ ResumeDeleteCourse
    \/ \E operation \in CrossArgs : CallAddCourseToClass(operation)
    \/ ResumeAddCourseToClass
    \/ \E operation \in CrossArgs : CallRemoveCourseFromClass(operation)
    \/ ResumeRemoveCourseFromClass

SpecCross == Init /\ [][NextCross]_vars

\* update and deletion of the courses of OwnerArgs in the sessions of teacher 1
\* and teacher 3
NextOwner ==
    \/ \E credentials \in {Teacher1, Teacher3} : CallLogin(credentials)
    \/ ResumeLogin
    \/ Logout
    \/ \E courseId \in OwnerArgs : CallFetchCourseById(courseId)
    \/ ResumeFetchCourseById
    \/ \E courseId \in OwnerArgs : CallUpdateCourse(courseId, Geometry)
    \/ ResumeUpdateCourse
    \/ \E courseId \in OwnerArgs : CallDeleteCourse(courseId)
    \/ ResumeDeleteCourse
    \/ FilterCourses([difficulty |-> "easy"])
    \/ ResetFilters

SpecOwner == Init /\ [][NextOwner]_vars

\* the course store in the sessions of teacher 1 and teacher 3
NextCourse ==
    \/ \E credentials \in {Teacher1, Teacher3} : CallLogin(credentials)
    \/ ResumeLogin
    \/ Logout
    \/ CallFetchCourses
    \/ ResumeFetchCourses
    \/ CallFetchCourseById(1)
    \/ ResumeFetchCourseById
    \/ CallCreateCourse(Geometry)
    \/ ResumeCreateCourse
    \/ CallUpdateCourse(1, Geometry)
    \/ ResumeUpdateCourse
    \/ CallDeleteCourse(1)
    \/ ResumeDeleteCourse
    \/ FilterCourses([difficulty |-> "easy"])
    \/ ResetFilters

SpecCourse == Init /\ [][NextCourse]_vars

\* creation, update and deletion of any course of the fixture, in the sessions of
\* teacher 1 and teacher 3, each call made once the call before it has returned
NextIds ==
    \/ pending = <<>> /\ \E credentials \in {Teacher1, Teacher3} : CallLogin(credentials)
    \/ ResumeLogin
    \/ pending = <<>> /\ CallCreateCourse(Geometry)
    \/ ResumeCreateCourse
    \/ pending = <<>> /\ CallUpdateCourse(1, Geometry)
    \/ ResumeUpdateCourse
    \/ pending = <<>> /\ \E courseId \in Range(Ids(course_mockCourses0)) :
                            CallDeleteCourse(courseId)
    \/ ResumeDeleteCourse

SpecIds == Init /\ [][NextIds]_vars

\* the listings of the class store in the sessions of the three users
NextList ==
    \/ \E credentials \in {Teacher1, Teacher3, Student2} : CallLogin(credentials)
    \/ ResumeLogin
    \/ Logout
    \/ CallFetchClasses
    \/ ResumeFetchClasses
    \/ \E operation \in ListArgs : CallAddCourseToClass(operation)
    \/ ResumeAddCourseToClass
    \/ \E operation \in ListArgs : CallRemoveCourseFromClass(operation)
    \/ ResumeRemoveCourseFromClass

SpecList == Init /\ [][NextList]_vars

\* the class store and the course store together, in the session of teacher 1
NextFrame ==
    \/ CallLogin(Teacher1)
    \/ ResumeLogin
    \/ CallFetchClasses
    \/ ResumeFetchClasses
    \/ CallFetchClassById(1)
    \/ ResumeFetchClassById
    \/ \E operation \in FrameArgs : CallAddCourseToClass(operation)
    \/ ResumeAddCourseToClass
    \/ \E operation \in FrameArgs : CallRemoveCourseFromClass(operation)
    \/ ResumeRemoveCourseFromClass
    \/ CallFetchCourses
    \/ ResumeFetchCourses
    \/ CallCreateCourse(Geometry)
    \/ ResumeCreateCourse
    \/ CallUpdateCourse(2, Geometry)
    \/ ResumeUpdateCourse
    \/ CallDeleteCourse(2)
    \/ ResumeDeleteCourse

SpecFrame == Init /\ [][NextFrame]_vars

\* calls that fail and calls that succeed, on both stores, before the login of
\* teacher 1 and in the session of teacher 1
NextErrors ==
    \/ CallLogin(Teacher1)
    \/ ResumeLogin
    \/ \E classId \in {1, 99} : CallFetchClassById(classId)
    \/ ResumeFetchClassById
    \/ \E operation \in ErrorArgs : CallAddCourseToClass(operation)
    \/ ResumeAddCourseToClass
    \/ CallRemoveCourseFromClass([class_id |-> 99, course_id |-> 1])
    \/ ResumeRemoveCourseFromClass
    \/ CallFetchCourseById(99)
    \/ ResumeFetchCourseById
    \/ \E courseId \in {1, 3} : CallUpdateCourse(courseId, Geometry)
    \/ ResumeUpdateCourse
    \/ CallCreateCourse(Geometry)
    \/ ResumeCreateCourse
    \/ CallDeleteCourse(3)
    \/ ResumeDeleteCourse

SpecErrors == Init /\ [][NextErrors]_vars

\* the timer of the oldest suspended call fires
ResumeAny ==
    \/ ResumeLogin
    \/ ResumeFetchClasses
    \/ ResumeFetchClassById
    \/ ResumeAddCourseToClass
    \/ ResumeRemoveCourseFromClass

\* the class store with logins and logouts during the delays
NextLive ==
    \/ CallLogin(Teacher1)
    \/ Logout
    \/ CallFetchClasses
    \/ CallFetchClassById(1)
    \/ \E operation \in LiveArgs : CallAddCourseToClass(operation)
    \/ \E operation \in LiveArgs : CallRemoveCourseFromClass(operation)
    \/ ResumeAny

\* a timer that was set fires after its 500 ms: the resumption of the oldest call
\* is not put off for ever
SpecLive == Init /\ [][NextLive]_vars /\ WF_vars(ResumeAny)

\* the course store in the sessions of teacher 1 and of the student, and with no
\* user
NextRole ==
    \/ \E credentials \in {Teacher1, Student2} : CallLogin(credentials)
    \/ ResumeLogin
    \/ Logout
    \/ CallFetchCourses
    \/ ResumeFetchCourses
    \/ CallFetchCourseById(1)
    \/ ResumeFetchCourseById
    \/ CallCreateCourse(Geometry)
    \/ ResumeCreateCourse
    \/ CallUpdateCourse(1, Geometry)
    \/ ResumeUpdateCourse
    \/ CallDeleteCourse(1)
    \/ ResumeDeleteCourse

SpecRole == Init /\ [][NextRole]_vars

\* the listing of the course store in the sessions of teacher 1 and teacher 3,
\* one teacher logging in during the delays of the calls of the other
NextTeachers ==
    \/ \E credentials \in {Teacher1, Teacher3} : CallLogin(credentials)
    \/ ResumeLogin
    \/ CallFetchCourses
    \/ ResumeFetchCourses
    \/ CallCreateCourse(Geometry)
    \/ ResumeCreateCourse
    \/ CallUpdateCourse(1, Geometry)
    \/ ResumeUpdateCourse
    \/ CallDeleteCourse(3)
    \/ ResumeDeleteCourse

SpecTeachers == Init /\ [][NextTeachers]_vars

\* creation of courses through the course form and by calls on the store, in the
\* session of teacher 1
NextForm ==
    \/ CallLogin(Teacher1)
    \/ ResumeLogin
    \/ Logout
    \/ \E form \in Forms : HandleSubmit(form)
    \/ ResumeHandleCreateCourse
    \/ \E courseData \in {Geometry, LongGeometry} : CallCreateCourse(courseData)
    \/ ResumeCreateCourse
    \/ CallFetchCourses
    \/ ResumeFetchCourses

SpecForm == Init /\ [][NextForm]_vars

\* the course form of CoursesView opened for a new course and for a course
\* selected for editing, in the session of teacher 1
NextEdit ==
    \/ CallLogin(Teacher1)
    \/ ResumeLogin
    \/ CallFetchCourses
    \/ ResumeFetchCourses
    \/ ToggleCreateForm
    \/ \E course \in Range(courses) : HandleEditCourse(course)
    \/ \E form \in EditForms : HandleSubmit(form)
    \/ ResumeHandleCreateCourse

SpecEdit == Init /\ [][NextEdit]_vars

\* the dashboard with the first variant of DragDropContainer, in the session of
\* teacher 1: the cards shown are those of the props
NextDrag1 ==
    \/ CallLogin(Teacher1)
    \/ ResumeLogin
    \/ CallFetchClasses
    \/ ResumeFetchClasses
    \/ CallFetchCourses
    \/ ResumeFetchCourses
    \/ \E course \in Range(PropsCourses) :
          course.id \in DragCourseIds /\ HandleDragStart(course)
    \/ HandleDragEnd
    \/ \E classId \in Range(Ids(PropsClasses)), event \in DropEvents :
          DragDrop1_HandleDrop(classId, event)
    \/ DragDrop1_ResumeHandleDrop
    \/ UndoLastAssignment
    \/ ResumeUndoLastAssignment
    \/ ClearMessages

SpecDrag1 == Init /\ [][NextDrag1]_vars

\* the dashboard with the second variant of DragDropContainer, in the session of
\* teacher 1
NextDrag2 ==
    \/ CallLogin(Teacher1)
    \/ ResumeLogin
    \/ CallFetchClasses
    \/ ResumeFetchClasses
    \/ CallFetchCourses
    \/ ResumeFetchCourses
    \/ \E course \in Range(PropsCourses) :
          course.id \in RaceCourseIds /\ HandleDragStart(course)
    \/ HandleDragEnd
    \/ \E classId \in Range(Ids(PropsClasses)), event \in DropEvents :
          DragDrop2_HandleDrop(classId, event)
    \/ DragDrop2_ResumeHandleDrop
    \/ UndoLastAssignment
    \/ ResumeUndoLastAssignment
    \/ ClearMessages

SpecDrag2 == Init /\ [][NextDrag2]_vars

\* the DashboardView that handles drops itself, in the session of teacher 1
NextDashboard ==
    \/ CallLogin(Teacher1)
    \/ ResumeLogin
    \/ CallFetchClasses
    \/ ResumeFetchClasses
    \/ CallFetchCourses
    \/ ResumeFetchCourses
    \/ \E course \in Range(PropsCourses) :
          course.id \in DragCourseIds /\ Dashboard_HandleDragStart(course)
    \/ HandleDragEnd
    \/ \E classId \in Range(Ids(PropsClasses)), event \in DropEvents :
          Dashboard_HandleDrop(classId, event)
    \/ Dashboard_ResumeHandleDrop

SpecDashboard == Init /\ [][NextDashboard]_vars

\* the course form submitted with fields at and around the limits of
\* validateForm, in the session of teacher 1
NextBounds ==
    \/ CallLogin(Teacher1)
    \/ ResumeLogin
    \/ \E form \in BoundForms : HandleSubmit(form)
    \/ ResumeHandleCreateCourse
    \/ ResumeFetchCourses

SpecBounds == Init /\ [][NextBounds]_vars

\* the auth store over page loads: logins that succeed and that fail, logout and
\* initAuth, in a page that may have been loaded with a stored user
NextSession ==
    \/ \E credentials \in SessionLogins : CallLogin(credentials)
    \/ ResumeLogin
    \/ Logout
    \/ InitAuth

SpecSession == InitLoaded /\ [][NextSession]_vars

-----------------------------------------------------------------------------
(* Vocabulary of the properties *)

\* this step is the resumption of the suspended call `op`: only a resumption
\* removes the head of `pending`
ResumeStep(op) == Resuming(op) /\ pending' = Tail(pending)

\* this step is the prologue of a call `op`: only a prologue appends to `pending`
CallStep(op) ==
    /\ Len(pending') = Len(pending) + 1
    /\ pending'[Len(pending')].op = op

\* the call of the last step returned `value`
Returned(op, value) == ret # None /\ ret[1].call.op = op /\ ret[1].value = value

\* the number of times course id k occurs in a course list
Occurrences(cs, k) == Cardinality({i \in 1..Len(cs) : cs[i].id = k})

NoDuplicate(cs) == \A i, j \in 1..Len(cs) : cs[i].id = cs[j].id => i = j

\* the class with this id among `cs`, as a set of at most one class
ClassesWithId(cs, id) == {cs[i] : i \in {j \in 1..Len(cs) : cs[j].id = id}}

\* the pair of `operation` is in the assignment relation held by mockClasses
Assigned(operation) ==
    \E c \in ClassesWithId(mockClasses, operation.class_id) :
        Occurrences(c.courses, operation.course_id) > 0

ClassExists(class_id) == ClassesWithId(mockClasses, class_id) # {}

\* the course is in the course collection (course.store's mockCourses)
CourseExists(course_id) == \E i \in 1..Len(course_mockCourses) :
                              course_mockCourses[i].id = course_id

-----------------------------------------------------------------------------
(* C1 - C7: the assignment relation *)

\* C1: in every reachable state, whatever the interleaving of fetchClasses,
\* fetchClassById, addCourseToClass and removeCourseFromClass, no course list of a
\* class (in mockClasses, in classes, in currentClass) holds a course id twice.
C1_AssignmentUnique ==
    /\ \A i \in 1..Len(mockClasses) : NoDuplicate(mockClasses[i].courses)
    /\ \A i \in 1..Len(classes) : NoDuplicate(classes[i].courses)
    /\ currentClass # None => NoDuplicate(currentClass[1].courses)

\* C1 witness: two addCourseToClass calls for the same absent pair (class 1,
\* course 2) were suspended together; the first added the pair, the second has
\* just returned false.
C1_Witness ==
    /\ Returned("addCourseToClass", FALSE)
    /\ ret[1].call.operation = [class_id |-> 1, course_id |-> 2]
    /\ Ids(mockClasses[1].courses) = <<1, 2>>
    /\ Ids(classes[1].courses) = <<1, 2>>
    /\ currentClass # None /\ Ids(currentClass[1].courses) = <<1, 2>>

\* C2: addCourseToClass for a pair that is assigned returns false with the
\* 'already assigned' error, and neither its prologue nor its resumption changes
\* mockClasses, classes or currentClass.
C2_DuplicateAssignFails ==
    [][ /\ (ResumeStep("addCourseToClass") /\ Assigned(Head(pending).operation))
           => /\ ret' = Some([call |-> Head(pending), value |-> FALSE])
              /\ class_error' = Some("Course is already assigned to this class")
              /\ UNCHANGED <<mockClasses, classes, currentClass>>
        /\ CallStep("addCourseToClass")
           => UNCHANGED <<mockClasses, classes, currentClass>>
      ]_vars

\* C2 witness: addCourseToClass(class 1, course 1), a pair of the fixture, has
\* returned false with the error, and class 1 still holds exactly course 1.
C2_Witness ==
    /\ Returned("addCourseToClass", FALSE)
    /\ ret[1].call.operation = [class_id |-> 1, course_id |-> 1]
    /\ class_error = Some("Course is already assigned to this class")
    /\ Ids(mockClasses[1].courses) = <<1>>

\* C3 (as claimed): removeCourseFromClass for an existing class that does not hold
\* the course returns false with an error, and changes neither mockClasses nor
\* classes nor currentClass.
C3_UnassignAbsentFails ==
    [][ (/\ ResumeStep("removeCourseFromClass")
         /\ ClassExists(Head(pending).operation.class_id)
         /\ ~Assigned(Head(pending).operation))
        => /\ ret' = Some([call |-> Head(pending), value |-> FALSE])
           /\ class_error' # None
           /\ UNCHANGED <<mockClasses, classes, currentClass>>
      ]_vars

\* C6: right after a successful addCourseToClass of a pair, removing that pair
\* (the mutation removeCourseFromClass performs) gives back mockClasses as it was
\* before the assign: the class's list with its contents and order, and every
\* other class unchanged.
C6_AssignUnassignRoundTrip ==
    [][ (ResumeStep("addCourseToClass") /\ ret' = Some([call |-> Head(pending), value |-> TRUE]))
        => LET operation == Head(pending).operation
               i == FindIndex(mockClasses, operation.class_id)
           IN  /\ mockClasses' # mockClasses
               /\ FilterOutCourse(mockClasses', i, operation.course_id) = mockClasses
      ]_vars

\* C6 witness: addCourseToClass(class 2, course 1) has just returned true, class 2
\* holds <<2, 1>> where it held <<2>>, and the removeCourseFromClass of the same
\* pair is the call that resumes next.
C6_Witness ==
    /\ Returned("addCourseToClass", TRUE)
    /\ ret[1].call.operation = [class_id |-> 2, course_id |-> 1]
    /\ Ids(mockClasses[2].courses) = <<2, 1>>
    /\ Resuming("removeCourseFromClass")
    /\ Head(pending).operation = [class_id |-> 2, course_id |-> 1]

\* C4 (as claimed): with teacher 1 logged in, addCourseToClass(class 1, course 5)
\* on the absent pair returns true and class 1 then holds course 5.
C4_ScenarioAssignCourse5 ==
    [][ (/\ ResumeStep("addCourseToClass")
         /\ Head(pending).operation = [class_id |-> 1, course_id |-> 5]
         /\ UserId = 1
         /\ ~Assigned(Head(pending).operation))
        => /\ ret' = Some([call |-> Head(pending), value |-> TRUE])
           /\ Occurrences(mockClasses'[1].courses, 5) = 1
      ]_vars

\* C5 (as claimed): addCourseToClass for an existing class and a course of the
\* course collection whose pair is absent returns true, and the class then holds
\* the course exactly once.
C5_AssignAbsentSucceeds ==
    [][ (/\ ResumeStep("addCourseToClass")
         /\ ClassExists(Head(pending).operation.class_id)
         /\ CourseExists(Head(pending).operation.course_id)
         /\ ~Assigned(Head(pending).operation))
        => /\ ret' = Some([call |-> Head(pending), value |-> TRUE])
           /\ \A c \in ClassesWithId(mockClasses', Head(pending).operation.class_id) :
                 Occurrences(c.courses, Head(pending).operation.course_id) = 1
      ]_vars

-----------------------------------------------------------------------------
(* C8 - C10: the course collection *)

TeacherIds == {mockUsers[i].id : i \in {j \in 1..Len(mockUsers) : mockUsers[j].role = "teacher"}}

\* C9 (as claimed): every course of the collection has the id of a teacher as its
\* teacher_id, and a course returned by createCourse has the id of the user who
\* called createCourse.
C9_OwnedByInvokingTeacher ==
    /\ \A i \in 1..Len(course_mockCourses) : course_mockCourses[i].teacher_id \in TeacherIds
    /\ (ret # None /\ ret[1].call.op = "createCourse" /\ ret[1].value # None)
       => ret[1].value[1].teacher_id = ret[1].call.caller

\* C10 (as claimed): no two courses of the collection share an id, every id is a
\* positive integer, and updateCourse leaves the ids of the collection as they are.
C10_CourseIdsUniqueStable ==
    [][ /\ \A i, j \in 1..Len(course_mockCourses') :
              course_mockCourses'[i].id = course_mockCourses'[j].id => i = j
        /\ \A i \in 1..Len(course_mockCourses') :
              course_mockCourses'[i].id > 0 /\ course_mockCourses'[i].id # NegInfinity
        /\ ResumeStep("updateCourse") => Ids(course_mockCourses') = Ids(course_mockCourses)
      ]_vars

-----------------------------------------------------------------------------
(* C11: validation of createCourse *)

\* a suspended createCourse call resumes in this step, whoever made it
CreateResumes ==
    /\ Resuming("createCourse")
    /\ pending' # pending
    /\ Len(pending') <= Len(pending)

\* C11 (as claimed): a createCourse call made by teacher 1 with a title longer than
\* MaxTitleLength, through the form or on the store, returns null with an error
\* and leaves the course collection as it was.
C11_LongTitleRejected ==
    [][ (/\ CreateResumes
         /\ Head(pending).caller = 1
         /\ Len(Head(pending).courseData.title) > MaxTitleLength)
        => /\ ret' = Some([call |-> Head(pending), value |-> None])
           /\ course_error' # None
           /\ UNCHANGED course_mockCourses
      ]_vars

-----------------------------------------------------------------------------
(* C12 - C14: the listings *)

\* the ids of the classes of mockClasses that teacher `id` owns
OwnedClassIds(id) == {mockClasses[i].id : i \in {j \in 1..Len(mockClasses) :
                                                   mockClasses[j].teacher_id = id}}

\* the ids of the classes of mockClasses whose students include `id`
EnrolledClassIds(id) ==
    {mockClasses[i].id : i \in {j \in 1..Len(mockClasses) :
                                   id \in Range(mockClasses[j].students)}}

\* C12: in every reachable state every class of teacherClasses has the id of the
\* current user as teacher_id; for a logged-in user who owns no class
\* teacherClasses is empty; and fetchClasses, when it resumes, sets no error.
C12_TeacherClassesOwned ==
    /\ [](/\ \A i \in 1..Len(teacherClasses) :
                auth_user # None /\ teacherClasses[i].teacher_id = auth_user[1].id
          /\ (auth_user # None /\ OwnedClassIds(auth_user[1].id) = {})
                => teacherClasses = <<>>)
    /\ [][ResumeStep("fetchClasses") => class_error' = class_error]_vars

\* C12 witness: teacher 1 is logged in and an addCourseToClass has put all three
\* mock classes into `classes`, the class of teacher 3 among them, while
\* teacherClasses lists classes 1 and 2.
C12_Witness ==
    /\ UserId = 1
    /\ Returned("addCourseToClass", TRUE)
    /\ Ids(classes) = <<1, 2, 3>>
    /\ Ids(teacherClasses) = <<1, 2>>

\* C13: for a logged-in student studentClasses is exactly the classes of
\* mockClasses whose students include the student's id, in the order of
\* mockClasses, and so is `classes` when fetchClasses has resumed for the student;
\* for a teacher or no user studentClasses is empty.
C13_StudentClassesEnrolled ==
    /\ [](IF auth_user # None /\ auth_user[1].role = "student"
          THEN /\ Range(Ids(studentClasses)) = EnrolledClassIds(auth_user[1].id)
               /\ studentClasses =
                     SelectSeq(mockClasses, LAMBDA c : c.id \in Range(Ids(studentClasses)))
          ELSE studentClasses = <<>>)
    /\ [][(/\ ResumeStep("fetchClasses")
           /\ auth_user # None /\ auth_user[1].role = "student")
          => /\ Range(Ids(classes')) = EnrolledClassIds(auth_user[1].id)
             /\ classes' = SelectSeq(mockClasses, LAMBDA c : c.id \in Range(Ids(classes')))
         ]_vars

\* C13 witness: the student (user 2) is logged in, an assign had filled `classes`
\* with the three mock classes, and fetchClasses has just resumed for the student:
\* `classes` and studentClasses are empty, user 2 being a student of no class.
C13_Witness ==
    /\ UserId = 2
    /\ Returned("fetchClasses", "undefined")
    /\ ret[1].call = [op |-> "fetchClasses"]
    /\ class_isLoading = FALSE
    /\ classes = <<>> /\ studentClasses = <<>>
    /\ \E i \in 1..Len(mockClasses) : Len(mockClasses[i].courses) = 2

\* the call that resumes in this step succeeds: a fetch always does, createCourse
\* and updateCourse return a course, deleteCourse returns true
Succeeds(op) ==
    /\ ret' # None
    /\ CASE op = "deleteCourse" -> ret'[1].value = TRUE
         [] op \in {"createCourse", "updateCourse"} -> ret'[1].value # None
         [] OTHER -> TRUE

\* C14: when fetchCourses, or a successful createCourse, updateCourse or
\* deleteCourse, resumes while a teacher is logged in, teacherCourses is then
\* exactly the courses of the collection whose teacher_id is that teacher's id, in
\* the order of the collection.
C14_TeacherCoursesOwned ==
    [][ \A op \in {"fetchCourses", "createCourse", "updateCourse", "deleteCourse"} :
          (/\ ResumeStep(op)
           /\ auth_user # None /\ auth_user[1].role = "teacher"
           /\ Succeeds(op))
          => teacherCourses' =
               SelectSeq(course_mockCourses',
                         LAMBDA course : course.teacher_id = auth_user[1].id)
      ]_vars

\* C14 witness: teacher 3 is logged in, the collection holds a seventh course
\* created by teacher 1, and fetchCourses has just resumed: teacherCourses lists
\* courses 3 and 4.
C14_Witness ==
    /\ UserId = 3
    /\ Returned("fetchCourses", "undefined")
    /\ ret[1].call = [op |-> "fetchCourses"]
    /\ Len(course_mockCourses) = 7
    /\ course_mockCourses[7].teacher_id = 1
    /\ Ids(teacherCourses) = <<3, 4>>

-----------------------------------------------------------------------------
(* C15: the frame of the assignment operations *)

\* the assignment relation held by a sequence of classes
Pairs(cs) == UNION {{<<cs[i].id, cs[i].courses[j].id>> : j \in 1..Len(cs[i].courses)} :
                       i \in 1..Len(cs)}

\* a class without its course list: id, name, section, teacher and students
Meta(c) == [c EXCEPT !.courses = <<>>]

\* this step is the resumption of an assignment call on class `class_id`
AssignmentStepOn(class_id) ==
    /\ ResumeStep("addCourseToClass") \/ ResumeStep("removeCourseFromClass")
    /\ Head(pending).operation.class_id = class_id

\* every class of `after` that is also in `before` (by id) is the same but for
\* its course list, and has the same course list unless this step is an
\* assignment call on that class
OnlyTargetChanges(before, after) ==
    \A b \in Range(before), a \in Range(after) :
        a.id = b.id => /\ Meta(a) = Meta(b)
                       /\ a.courses # b.courses => AssignmentStepOn(a.id)

\* C15: in every step, a pair enters the relation of mockClasses only when a
\* resuming addCourseToClass on that pair returns true, and leaves it only when a
\* removeCourseFromClass on that pair resumes, one pair at a time; no class is
\* added or dropped and no class changes its id, name, section, teacher or
\* students; a course list (in mockClasses, `classes`, currentClass) changes only
\* for the class the resuming assignment call names; and an assignment call leaves
\* the course store's collection, courses, filteredCourses and currentCourse as
\* they were.  So no createCourse, updateCourse, deleteCourse or fetch changes a
\* pair.
C15_AssignmentFrame ==
    [][ /\ Ids(mockClasses') = Ids(mockClasses)
        /\ OnlyTargetChanges(mockClasses, mockClasses')
        /\ OnlyTargetChanges(classes, classes')
        /\ OnlyTargetChanges(currentClass, currentClass')
        /\ Pairs(mockClasses') # Pairs(mockClasses)
           => LET pair == <<Head(pending).operation.class_id,
                            Head(pending).operation.course_id>>
              IN  \/ /\ ResumeStep("addCourseToClass")
                     /\ ret' = Some([call |-> Head(pending), value |-> TRUE])
                     /\ pair \notin Pairs(mockClasses)
                     /\ Pairs(mockClasses') = Pairs(mockClasses) \cup {pair}
                  \/ /\ ResumeStep("removeCourseFromClass")
                     /\ pair \in Pairs(mockClasses)
                     /\ Pairs(mockClasses') = Pairs(mockClasses) \ {pair}
        /\ (ResumeStep("addCourseToClass") \/ ResumeStep("removeCourseFromClass"))
           => UNCHANGED <<course_mockCourses, courses, filteredCourses, currentCourse>>
      ]_vars

\* C15 witness: course 2 has been deleted from the course store, which changed no
\* pair, and an addCourseToClass has just put the pair (class 1, course 2) into the
\* relation next to the pairs of the fixture.
C15_Witness ==
    /\ Returned("addCourseToClass", TRUE)
    /\ ret[1].call.operation = [class_id |-> 1, course_id |-> 2]
    /\ Pairs(mockClasses) = {<<1, 1>>, <<1, 2>>, <<2, 2>>, <<3, 3>>}
    /\ ~CourseExists(2)
    /\ Len(course_mockCourses) = 6

-----------------------------------------------------------------------------
(* C16: errors are values *)

ClassMutators == {"addCourseToClass", "removeCourseFromClass"}

CourseMutators == {"createCourse", "updateCourse", "deleteCourse"}

ClassOperations == ClassMutators \cup {"fetchClasses", "fetchClassById"}

CourseOperations == CourseMutators \cup {"fetchCourses", "fetchCourseById"}

\* the fetch by id that resumes in this step finds nothing
FetchByIdFails(op) ==
    /\ ResumeStep(op)
    /\ \/ op = "fetchClassById" /\ ~ClassExists(Head(pending).classId)
       \/ op = "fetchCourseById" /\ ~CourseExists(Head(pending).courseId)

\* the store's error after this step, for an operation of either store
ErrorAfter(op) == IF op \in ClassOperations THEN class_error' ELSE course_error'

\* a mutator that has returned false / null has left a message in its store
FailureHasMessage ==
    ret # None =>
      LET op == ret[1].call.op
          value == ret[1].value
      IN  /\ (op \in ClassMutators /\ value = FALSE) => class_error # None
          /\ (op = "deleteCourse" /\ value = FALSE) => course_error # None
          /\ (op \in {"createCourse", "updateCourse"} /\ value = None) => course_error # None

\* C16 (as claimed): every failing operation of either store reports the failure
\* through its return value (false / null) and leaves a message, a fetch by id that
\* finds nothing being such a failing operation; every resumption ends with
\* isLoading false in its store; and an addCourseToClass that is valid when it
\* resumes (an existing class, a course of the course collection, the pair
\* absent), whatever failed before it, returns true.
C16_FailureByReturnValue ==
    /\ []FailureHasMessage
    /\ [][ /\ \A op \in {"fetchClassById", "fetchCourseById"} :
                 FetchByIdFails(op) => /\ ret'[1].value # "undefined"
                                       /\ ErrorAfter(op) # None
           /\ \A op \in ClassOperations : ResumeStep(op) => class_isLoading' = FALSE
           /\ \A op \in CourseOperations : ResumeStep(op) => course_isLoading' = FALSE
           /\ (/\ ResumeStep("addCourseToClass")
               /\ ClassExists(Head(pending).operation.class_id)
               /\ CourseExists(Head(pending).operation.course_id)
               /\ ~Assigned(Head(pending).operation))
              => ret' = Some([call |-> Head(pending), value |-> TRUE])
         ]_vars

\* What does hold of the error handling: the five mutators report a failure
\* through their return value (false / null) and a message; fetchClassById and
\* fetchCourseById return no value and report a failure through the 'not found'
\* message alone; every resumption ends with isLoading false in its store; the
\* prologue of every call resets the store's error to null; and a call that the
\* store resolves when it resumes (addCourseToClass of a class and a course of the
\* class store, the pair absent; updateCourse of an own course) succeeds and
\* leaves the error as its prologue or a later call set it.
C16_ErrorsAreValues ==
    /\ []FailureHasMessage
    /\ [][ /\ FetchByIdFails("fetchClassById")
              => /\ ret' = Some([call |-> Head(pending), value |-> "undefined"])
                 /\ class_error' = Some("Class not found")
           /\ FetchByIdFails("fetchCourseById")
              => /\ ret' = Some([call |-> Head(pending), value |-> "undefined"])
                 /\ course_error' = Some("Course not found")
           /\ \A op \in ClassOperations :
                 /\ CallStep(op) => class_error' = None
                 /\ ResumeStep(op) => class_isLoading' = FALSE
           /\ \A op \in CourseOperations :
                 /\ CallStep(op) => course_error' = None
                 /\ ResumeStep(op) => course_isLoading' = FALSE
           /\ (/\ ResumeStep("addCourseToClass")
               /\ ClassExists(Head(pending).operation.class_id)
               /\ \E i \in 1..Len(class_mockCourses) :
                     class_mockCourses[i].id = Head(pending).operation.course_id
               /\ ~Assigned(Head(pending).operation))
              => /\ ret' = Some([call |-> Head(pending), value |-> TRUE])
                 /\ class_error' = class_error
           /\ (/\ ResumeStep("updateCourse")
               /\ \E i \in 1..Len(course_mockCourses) :
                     /\ course_mockCourses[i].id = Head(pending).courseId
                     /\ course_mockCourses[i].teacher_id = UserId)
              => /\ ret' # None /\ ret'[1].value # None
                 /\ course_error' = course_error
         ]_vars

-----------------------------------------------------------------------------
(* C17: no cancellation *)

\* the calls that SpecLive can suspend
LiveCalls ==
    {[op |-> "login", credentials |-> Teacher1], [op |-> "fetchClasses"],
     [op |-> "fetchClassById", classId |-> 1]}
    \cup {[op |-> op, operation |-> operation] :
             op \in ClassMutators, operation \in LiveArgs}

-----------------------------------------------------------------------------
(* C18: what a successful addCourseToClass returns *)

\* an addCourseToClass resumes in this step and adds its pair
AddSucceeds ==
    /\ ResumeStep("addCourseToClass")
    /\ <<Head(pending).operation.class_id, Head(pending).operation.course_id>>
          \in Pairs(mockClasses') \ Pairs(mockClasses)

\* C18 (as claimed): an addCourseToClass that adds its pair returns the course
\* list that the targeted class has after the pair was added.
C18_ReturnsCourseSet ==
    [][ AddSucceeds
        => /\ ret' # None
           /\ ret'[1].value \notin BOOLEAN
           /\ \A c \in ClassesWithId(mockClasses', Head(pending).operation.class_id) :
                 ret'[1].value = c.courses
      ]_vars

\* C18 (amended): an addCourseToClass that adds its pair returns true, and the
\* course list of the targeted class after the pair was added (the list of before
\* with the course appended) is what mockClasses and `classes` then hold for the
\* class, and currentClass too when it is that class.
C18_ReturnsTrueAndStoresCourseSet ==
    [][ AddSucceeds
        => LET operation == Head(pending).operation
               updated(c) == Append(c.courses, Find(class_mockCourses, operation.course_id)[1])
           IN  /\ ret' = Some([call |-> Head(pending), value |-> TRUE])
               /\ \A old \in ClassesWithId(mockClasses, operation.class_id) :
                     /\ \A new \in ClassesWithId(mockClasses', operation.class_id) :
                           new.courses = updated(old)
                     /\ ClassesWithId(classes', operation.class_id) # {}
                     /\ \A new \in ClassesWithId(classes', operation.class_id) :
                           new.courses = updated(old)
                     /\ (currentClass' # None /\ currentClass'[1].id = operation.class_id)
                           => currentClass'[1].courses = updated(old)
      ]_vars

\* C18 witness: addCourseToClass(class 1, course 2) has returned true while class
\* 1 is the current class: mockClasses, `classes` and currentClass hold courses 1
\* and 2 for class 1.
C18_Witness ==
    /\ Returned("addCourseToClass", TRUE)
    /\ ret[1].call.operation = [class_id |-> 1, course_id |-> 2]
    /\ Ids(mockClasses[1].courses) = <<1, 2>>
    /\ \E c \in ClassesWithId(classes, 1) : Ids(c.courses) = <<1, 2>>
    /\ currentClass # None /\ currentClass[1].id = 1
    /\ Ids(currentClass[1].courses) = <<1, 2>>

-----------------------------------------------------------------------------
(* C19: the role check of the course store *)

\* the error of the role check of a mutator of the course store
OnlyTeachers(op) ==
    CASE op = "createCourse" -> "Only teachers can create courses"
      [] op = "updateCourse" -> "Only teachers can update courses"
      [] op = "deleteCourse" -> "Only teachers can delete courses"

\* a call returns in this step without having been suspended
ReturnsAtOnce(op) ==
    /\ pending' = pending
    /\ ret' # None
    /\ ret'[1].call.op = op

\* C19: no createCourse, updateCourse or deleteCourse call made while the current
\* user is a student or nobody is ever suspended on the timer; such a call
\* returns at once, null (createCourse, updateCourse) or false (deleteCourse),
\* with the 'Only teachers can ...' error of the operation, and changes nothing
\* else: the collection, courses, filteredCourses, currentCourse, isLoading, the
\* class store, the auth store and the suspended calls are as before.
C19_RoleFlagCheck ==
    [][ \A op \in CourseMutators :
          /\ CallStep(op) => (auth_user # None /\ auth_user[1].role = "teacher")
          /\ (ReturnsAtOnce(op) /\ ~(auth_user # None /\ auth_user[1].role = "teacher"))
             => /\ ret'[1].call.caller = UserId
                /\ ret'[1].value = IF op = "deleteCourse" THEN FALSE ELSE None
                /\ course_error' = Some(OnlyTeachers(op))
                /\ UNCHANGED <<course_mockCourses, courses, filteredCourses,
                               currentCourse, course_isLoading, classVars, authVars,
                               localStorage>>
      ]_vars

\* C19 witness: the student (user 2) is logged in and has fetched courses 1, 2 and
\* 3; the student's deleteCourse(1) has returned false with the error, course 1
\* being still in the collection and in `courses`, while a call is suspended.
C19_Witness ==
    /\ UserId = 2
    /\ Returned("deleteCourse", FALSE)
    /\ ret[1].call.caller = 2
    /\ course_error = Some("Only teachers can delete courses")
    /\ CourseExists(1)
    /\ Ids(courses) = <<1, 2, 3>>
    /\ pending # <<>>

-----------------------------------------------------------------------------
(* C20: the loading flags *)

\* a call of an operation of `ops` is suspended on its timer
InFlight(ops) == \E i \in 1..Len(pending) : pending[i].op \in ops

\* C20 (as claimed): in every reachable state the isLoading of the class store is
\* true exactly when a call of the class store is in flight (started and not yet
\* resumed), and the isLoading of the course store exactly when a call of the
\* course store is in flight.
C20_LoadingTracksInFlight ==
    /\ class_isLoading = InFlight(ClassOperations)
    /\ course_isLoading = InFlight(CourseOperations)

-----------------------------------------------------------------------------
(* C21: the error of the class store is that of the call that returns *)

\* the messages addCourseToClass (lines 280, 287) and removeCourseFromClass
\* (line 329) leave in the class store's error when they return false
MessagesOf(op) ==
    IF op = "addCourseToClass"
    THEN {"Class or course not found", "Course is already assigned to this class"}
    ELSE {"Class not found or has no courses"}

\* C21 (as claimed): whichever class-store calls overlap, when addCourseToClass or
\* removeCourseFromClass returns true the class store's error is null, and when
\* it returns false the error is a message of that call.
C21_LastErrorConsistent ==
    [][\A op \in ClassMutators :
          ResumeStep(op) =>
            /\ ret'[1].value = TRUE => class_error' = None
            /\ ret'[1].value = FALSE =>
                  \E m \in MessagesOf(op) : class_error' = Some(m)]_vars

-----------------------------------------------------------------------------
(* C22: the courses of the classes are courses of the course collection *)

\* every course of the course lists of `cs` is in the course collection
CoursesResolve(cs) ==
    \A i \in 1..Len(cs) : \A j \in 1..Len(cs[i].courses) :
        CourseExists(cs[i].courses[j].id)

\* C22 (as claimed): in every reachable state every course in the course list of a
\* class (of mockClasses, of classes, of currentClass) is a course of the course
\* store's collection; so no list holds the id of a course that was deleted.
C22_ReferentialIntegrity ==
    /\ CoursesResolve(mockClasses)
    /\ CoursesResolve(classes)
    /\ CoursesResolve(currentClass)

-----------------------------------------------------------------------------
(* C23: who may change the course list of a class *)

\* the authenticated user is a teacher and owns class `c`
OwnerActs(c) == auth_isAuthenticated /\ isTeacher /\ c.teacher_id = UserId

\* C23 (as claimed): a step changes the course list of a class only when the
\* authenticated user is the teacher who owns the class and, for a course that
\* the step adds, the course; calls by another teacher, by a student or with no
\* user logged in change no course list.
C23_OwnerOnlyAssignment ==
    [][\A i \in 1..Len(mockClasses) :
          mockClasses'[i].courses # mockClasses[i].courses =>
            /\ OwnerActs(mockClasses[i])
            /\ \A course \in Range(mockClasses'[i].courses) \ Range(mockClasses[i].courses) :
                  course.teacher_id = UserId]_vars

-----------------------------------------------------------------------------
(* C24: the classes collection holds the classes of the current user *)

\* class `c` is visible to the current user: owned by the teacher who is logged
\* in, or with the student who is logged in among its students
VisibleClass(c) ==
    \/ isTeacher /\ c.teacher_id = UserId
    \/ isStudent /\ \E i \in 1..Len(c.students) : c.students[i] = UserId

\* C24 (as claimed): in every reachable state with no call of the class store in
\* flight, every class of the classes collection is visible to the current user;
\* this includes the state in which a successful addCourseToClass or
\* removeCourseFromClass has just returned.
C24_ClassesScoped ==
    ~InFlight(ClassOperations) => \A c \in Range(classes) : VisibleClass(c)

\* the state C24 singles out: a successful assignment has just returned in the
\* session of a teacher, nothing is in flight and classes holds a class of
\* another teacher
C24_AfterAssignment ==
    /\ ret # None /\ ret[1].call.op \in ClassMutators /\ ret[1].value = TRUE
    /\ isTeacher /\ auth_isAuthenticated /\ pending = <<>>
    /\ \E c \in Range(classes) : c.teacher_id # UserId

-----------------------------------------------------------------------------
(* C25: the course form submitted for a selected course *)

\* this step is the resumption of a submit of the course form that was made with
\* a course selected for editing
EditResumes ==
    /\ CreateResumes
    /\ FromCoursesView(Head(pending))
    /\ Head(pending).course # None

\* C25 (as claimed): when the form is submitted with valid data for a course
\* selected for editing, the course is updated in place: the collection keeps its
\* size, and the course with the id of the selected course keeps its teacher_id
\* and has the submitted title, description, date, total marks and difficulty.
C25_EditUpdatesInPlace ==
    [][EditResumes =>
          LET selected == Head(pending).course[1]
              courseData == Head(pending).courseData
          IN  /\ Len(course_mockCourses') = Len(course_mockCourses)
              /\ \E i \in 1..Len(course_mockCourses') :
                    course_mockCourses'[i] =
                       [id |-> selected.id, teacher_id |-> selected.teacher_id,
                        title |-> courseData.title,
                        description |-> courseData.description,
                        date |-> courseData.date,
                        total_marks |-> courseData.total_marks,
                        difficulty_rating |-> courseData.difficulty_rating]]_vars

-----------------------------------------------------------------------------
(* C26: what a drop records when the store call returns true *)

\* the course id a suspended handleDrop passed to addCourseToClass
DroppedCourseId(call) ==
    IF "course_id" \in DOMAIN call THEN call.course_id ELSE call.courseToAssign[1].id

\* the assignmentHistory entry of the drop of a suspended handleDrop
DroppedPair(call) == [courseId |-> DroppedCourseId(call), classId |-> call.classId]

\* C26 (as claimed): whenever the addCourseToClass call of a drop returns true,
\* handleDrop appends exactly the entry of the dropped pair to assignmentHistory,
\* sets the success message and emits 'classUpdated' with the pair and no
\* 'error', whether or not handleDragEnd ran while the call was pending.
C26_DropBookkeeping ==
    [][(ResumeStep("handleDrop") /\ ret'[1].value.result = TRUE) =>
          LET call == Head(pending)
          IN  /\ assignmentHistory' = Append(assignmentHistory, DroppedPair(call))
              /\ successMessage' # None
              /\ ret'[1].value.emitted =
                    <<ClassUpdated(call.classId, DroppedCourseId(call))>>]_vars

\* the race C26 names: the store call of a drop returns true after handleDragEnd
\* has set draggingCourse to null
C26_DragEndRace ==
    /\ ret # None /\ ret[1].call.op = "handleDrop" /\ "result" \in DOMAIN ret[1].value
    /\ ret[1].value.result = TRUE
    /\ ret[1].value.emitted = <<ErrorEvent(NullTypeError)>>
    /\ assignmentHistory = <<>>

-----------------------------------------------------------------------------
(* C27: undo takes back the drops, latest first *)

\* the course ids that the entries of `history` name for class `classId`, oldest
\* first
HistoryCourseIds(history, classId) ==
    LET entries == SelectSeq(history, LAMBDA h : h.classId = classId)
    IN  [j \in 1..Len(entries) |-> entries[j].courseId]

\* the course list of every class is its list at construction followed by the
\* courses of the drops recorded in assignmentHistory: with an empty history
\* every list is as it was before the first drop
ListsAreFixturePlusHistory ==
    \A i \in 1..Len(mockClasses) :
        Ids(mockClasses[i].courses) =
           Ids(mockClasses0[i].courses)
           \o HistoryCourseIds(assignmentHistory, mockClasses[i].id)

\* C27 (as claimed), where drops and undos are the only changes of assignments:
\* assignmentHistory grows only by the pair of a drop whose addCourseToClass
\* returns true and shrinks only by its latest entry, which undoLastAssignment
\* hands to removeCourseFromClass; and whenever no drop and no undo is in flight
\* the course lists are those of construction plus the pairs of the history, so
\* that after n successful drops and n undos the history is empty and the lists
\* are as before the first drop.
C27_UndoRestores ==
    /\ [](~InFlight({"handleDrop", "undoLastAssignment"}) => ListsAreFixturePlusHistory)
    /\ [][assignmentHistory' # assignmentHistory =>
            \/ /\ ResumeStep("handleDrop")
               /\ ret'[1].value.result = TRUE
               /\ assignmentHistory' =
                     Append(assignmentHistory, DroppedPair(Head(pending)))
            \/ /\ assignmentHistory # <<>>
               /\ assignmentHistory' =
                     SubSeq(assignmentHistory, 1, Len(assignmentHistory) - 1)
               /\ CallStep("undoLastAssignment")
               /\ pending'[Len(pending')].lastAssignment =
                     assignmentHistory[Len(assignmentHistory)]]_vars

\* the drops that were recorded have all been undone, the drop of course 2 on
\* class 1 last, and nothing is in flight: every list is as at construction
C27_DropsUndone ==
    /\ assignmentHistory = <<>>
    /\ pending = <<>>
    /\ ret # None /\ ret[1].call.op = "undoLastAssignment"
    /\ ret[1].call.lastAssignment = [courseId |-> 2, classId |-> 1]
    /\ ret[1].value.result = TRUE
    /\ \A i \in 1..Len(mockClasses) : mockClasses[i].courses = mockClasses0[i].courses

-----------------------------------------------------------------------------
(* C28: a drop that the store refuses is reported *)

\* C28 (as claimed): when the addCourseToClass call of a drop returns false, the
\* handler ends with an error message shown (dragError of DragDropContainer,
\* errorMessage of DashboardView) and no success message.
C28_FailedDropReported ==
    [][(ResumeStep("handleDrop") /\ ret'[1].value.result = FALSE) =>
          /\ dragError' # None \/ errorMessage' # ""
          /\ successMessage' = None]_vars

\* the part of C28 that the two DragDropContainer variants satisfy: the error
\* shown is the message of the store, and an 'error' event is emitted
C28_ContainerShowsError ==
    [][(ResumeStep("handleDrop") /\ ret'[1].value.result = FALSE) =>
          /\ dragError' # None /\ dragError' = class_error'
          /\ ErrorEvent(dragError'[1]) \in Range(ret'[1].value.emitted)]_vars

-----------------------------------------------------------------------------
(* The auth session *)

sessionVars == <<auth_user, auth_isAuthenticated, localStorage>>

\* the stored 'user' entry is present exactly when isAuthenticated is true
StoredIffAuthenticated == (localStorage # None) <=> auth_isAuthenticated

\* this step resumes a login that the store refuses
FailedLoginStep ==
    /\ ResumeStep("login")
    /\ ret' # None
    /\ ~ret'[1].value.success

\* C29 as stated: in every reachable state isAuthenticated is true exactly when
\* user is non-null and the stored 'user' entry is present exactly when
\* isAuthenticated is true, and a failed login leaves user, isAuthenticated and
\* the stored entry unchanged
C29_SessionInvariant ==
    /\ [](auth_isAuthenticated <=> auth_user # None)
    /\ []StoredIffAuthenticated
    /\ [][FailedLoginStep => UNCHANGED sessionVars]_vars

\* C29, amended: isAuthenticated is true exactly when user is non-null; while
\* isAuthenticated is true the stored entry is the serialised user; a page loaded
\* with a stored entry holds it with isAuthenticated false only until the first
\* step that changes user, isAuthenticated or the entry (initAuth, a successful
\* login, logout), after which the entry is present exactly when isAuthenticated
\* is true, for good; a failed login leaves user, isAuthenticated and the stored
\* entry unchanged
C29_SessionAfterInitAuth ==
    /\ [](auth_isAuthenticated <=> auth_user # None)
    /\ [](auth_isAuthenticated =>
             /\ auth_user # None
             /\ localStorage = Some(Stringify(auth_user[1])))
    /\ [][sessionVars' # sessionVars => StoredIffAuthenticated']_vars
    /\ [][StoredIffAuthenticated => StoredIffAuthenticated']_vars
    /\ [][FailedLoginStep => UNCHANGED sessionVars]_vars

\* a login has just been refused in the session that initAuth restored from the
\* entry the page was loaded with
C29_RefusedInRestoredSession ==
    /\ ret # None
    /\ ret[1].call.op = "login"
    /\ ~ret[1].value.success
    /\ auth_isAuthenticated
    /\ auth_user = Some(mockUsers[2])
    /\ localStorage = Some(Stringify(mockUsers[2]))

-----------------------------------------------------------------------------
(* The bounds of the course form *)

\* handleSubmit emits 'submit' with `request` in this step: CoursesView answers
\* the event with a createCourse call that carries the request
SubmitEmits(request) ==
    \/ /\ CallStep("createCourse")
       /\ FromCoursesView(pending'[Len(pending')])
       /\ pending'[Len(pending')].courseData = request
    \/ /\ pending' = pending
       /\ ret' # None
       /\ ret'[1].call.op = "createCourse"
       /\ FromCoursesView(ret'[1].call)
       /\ ret'[1].call.courseData = request

\* the fields for which the form is to emit: the title non-blank and less than
\* 100 characters long, the description non-blank, the date non-empty, total
\* marks greater than 0 and less than 1000
WithinBounds(title, description, date, marks) ==
    /\ ~IsBlank(title) /\ Len(title) < MaxTitleLength
    /\ ~IsBlank(description)
    /\ date # ""
    /\ marks > 0 /\ marks < MaxTotalMarks

\* the message validateForm leaves for a field of `form` that is out of bounds
FieldErrorSet(form) ==
    LET e == FormErrors(form)
    IN  /\ (IsBlank(form.title) \/ ~(Len(form.title) < MaxTitleLength)) => e.title # ""
        /\ IsBlank(form.description) => e.description # ""
        /\ form.date = "" => e.date # ""
        /\ ~(form.totalMarks > 0 /\ form.totalMarks < MaxTotalMarks) => e.totalMarks # ""

\* C30 as stated: handleSubmit emits 'submit' only if the title is non-blank and
\* less than 100 characters long, the description is non-blank, the date is
\* non-empty and total marks is greater than 0 and less than 1000; for any other
\* input nothing is emitted (the form is not valid) and the error message of the
\* field is set
C30_SubmitWithinBounds ==
    /\ [][\A form \in BoundForms :
            SubmitEmits(CourseRequestOf(form))
            => WithinBounds(form.title, form.description, form.date, form.totalMarks)]_vars
    /\ [](\A form \in BoundForms :
            ~WithinBounds(form.title, form.description, form.date, form.totalMarks)
            => ~validateForm(form) /\ FieldErrorSet(form))

\* what the code does: 'submit' is emitted exactly for a title that is non-blank
\* and at most 100 characters long, a non-blank description, a non-empty date and
\* total marks greater than 0 and at most 1000, and then no field has an error
\* message; for any other input nothing is emitted and the error message of each
\* offending field is set
C30_SubmitWithinCodeBounds ==
    /\ [][\A form \in BoundForms :
            SubmitEmits(CourseRequestOf(form))
            => /\ ~IsBlank(form.title) /\ Len(form.title) <= MaxTitleLength
               /\ ~IsBlank(form.description)
               /\ form.date # ""
               /\ form.totalMarks > 0 /\ form.totalMarks <= MaxTotalMarks
               /\ errors' = NoErrors]_vars
    /\ [](\A form \in BoundForms :
            /\ validateForm(form) <=> FormErrors(form) = NoErrors
            /\ validateForm(form)
               <=> /\ ~IsBlank(form.title) /\ Len(form.title) <= MaxTitleLength
                   /\ ~IsBlank(form.description)
                   /\ form.date # ""
                   /\ form.totalMarks > 0 /\ form.totalMarks <= MaxTotalMarks)

\* the form was submitted with a title of exactly 100 characters and its
\* request is held by the createCourse call that waits
C30_FullTitleEmitted ==
    \E i \in 1..Len(pending) :
        /\ pending[i].op = "createCourse"
        /\ FromCoursesView(pending[i])
        /\ pending[i].courseData.title = FullTitle

====
